---- MODULE Spec2Model ----
(***************************************************************************)
(* Signal-derivation engine of src/python-functionapp/calculations.py:     *)
(* the anchored VWAP, the crossover detectors, the per-instrument step     *)
(* process_stock_data and the day-by-day replay of                         *)
(* iterate_stocks_individually, for one instrument.                        *)
(*                                                                         *)
(* Dates are the positions 1..Len(bars) of the fetched, date-ordered       *)
(* history (fetch_data_from_cache orders by date, the replay sorts again). *)
(* Prices and volumes are integers; a VWAP is kept as the pair             *)
(* (3 * cumulative price*volume, cumulative volume) and compared by cross  *)
(* multiplication, so the comparisons are those of exact arithmetic.       *)
(* On integers Decimal(str(v)) and float(v) are exact, so a price written  *)
(* to the row and read back is the price.                                  *)
(* A NULL column is the empty sequence None, a value v is Some(v).         *)
(***************************************************************************)
EXTENDS Integers, Sequences, FiniteSets, TLC

VARIABLES
    bars,       \* full_data: the bar history fetched for the instrument
    day_idx,    \* position of the replay loop: the next date to process
    stocks,     \* the instrument's row of table stocks (persisted state)
    before,     \* the row as it was when the last step began
    writes,     \* the storage writes the last step performed, in order
    confirmed,  \* kind of the latest detector-confirmed signal of this replay
    forced,     \* a split override was applied since that confirmation
    run,        \* number of the run in progress
    at_start,   \* the row as it was when the run in progress began
    fetched,    \* fetch_data_from_cache returned bars in the run in progress
    calls,      \* the storage calls of the last step, each with its outcome
    invocations,\* the calls of process_stock_data of a watched run, in order
    report,     \* what fetch_buy_sell_signals returned at the end of the run
    zones,      \* all_zones of the replay, and of a second replay beside it
    stocks2,    \* the row of the second replay
    writes2,    \* the writes of the last step of the second replay
    zone_state, \* the rows of table zone_state (persisted zone history)
    spy_data,   \* the reference series the classifier fetched in this run
    call,       \* the arguments of a call of one of the functions
    ret,        \* what that call returned
    inflight,   \* the runs of main in flight, each with its local variables
    stocks_table,\* the rows of table stocks, by symbol, of a run over several
    events      \* the storage operations and steps of that run, in order

vars == <<bars, day_idx, stocks, before, writes, confirmed, forced, run,
          at_start, fetched, calls, invocations, report, zones, stocks2,
          writes2, zone_state, spy_data, call, ret, inflight, stocks_table,
          events>>

\* ---------------------------------------------------------------- bounds
MaxBars == 6        \* longest history of the wide specification
LongBars == 8       \* longest history of the long specification
RerunBars == 7      \* longest history of the two-run specification
MaxRuns == 2        \* runs of the two-run specification
FailBars == 5       \* longest history of the specification with failing calls
MaxFailures == 1    \* storage calls that fail within one step
ZoneBars == 4       \* longest history of the specification with zone data
MaxZones == 2       \* longest zone history
DetectLen == 6      \* longest series given to the detectors
VwapLen == 4        \* longest series given to calculate_anchored_vwap
LookupDates == 3    \* dates of the zone records given to find_zone_for_date
LookupZones == 3    \* longest zone sequence given to find_zone_for_date
SpyLen == 6         \* longest reference series of the zone classifier
SpyRuns == 2        \* runs of the specification of the zone classifier
SmaWindow == 3      \* samples of the simple moving average (200 in the code)
EmaSpan == 2        \* span of the exponential moving average (20 in the code)
ReplayBars == 5     \* longest history of the specification of repeated replays
ConcBars == 6       \* longest history of the specification of concurrent runs
MainBars == 4       \* longest history of an instrument in the specification of main
MainSpyLen == 3     \* longest reference series in the specification of main

NoSplit == 1        \* split_factor 1.0; a bar with any other factor is a split
SplitFactors == {NoSplit, NoSplit + 1}

None == <<>>
Some(x) == <<x>>

\* No function-level call is under way.
NoCall == [fn |-> "none"]

\* ---------------------------------------------------------------- data
\* One PriceBar row of fetch_data_from_cache.
PriceBar(c, h, l, v, s) ==
    [close |-> c, high |-> h, low |-> l, volume |-> v, split_factor |-> s]

\* Closes below, at and above zero; a split bar closing below the highest
\* close; and a bar whose typical price and volume differ from its close and
\* from the other volumes.
WideBars ==
    {PriceBar(c, c, c, 1, NoSplit) : c \in {0 - 1, 0, 1, 2}}
    \cup {PriceBar(0, 0, 0, 1, NoSplit + 1)}
    \cup {PriceBar(1, 2, 1, 2, NoSplit)}

NarrowBars ==
    {PriceBar(c, c, c, 1, s) : c \in 1..2, s \in SplitFactors}

SeqsUpTo(S, n) == UNION {[1..k -> S] : k \in 1..n}

NoRow ==
    [all_time_high |-> None, all_time_high_date |-> None,
     trade_signal |-> "NULL", last_trade_signal |-> "NULL"]

\* ------------------------------------------------------- storage writes
update_all_time_high_info(new_high, new_high_date) ==
    [op |-> "update_all_time_high_info", high |-> new_high, date |-> new_high_date,
     signal |-> "NULL"]

update_trade_signal(signal) ==
    [op |-> "update_trade_signal", high |-> 0, date |-> 0, signal |-> signal]

update_last_trade_signal(signal) ==
    [op |-> "update_last_trade_signal", high |-> 0, date |-> 0, signal |-> signal]

\* The row after one UPDATE statement.
Execute(row, w) ==
    CASE w.op = "update_all_time_high_info" ->
            [row EXCEPT !.all_time_high = Some(w.high),
                        !.all_time_high_date = Some(w.date)]
      [] w.op = "update_trade_signal" ->
            [row EXCEPT !.trade_signal = w.signal]
      [] w.op = "update_last_trade_signal" ->
            [row EXCEPT !.last_trade_signal = w.signal]

RECURSIVE ExecuteAll(_, _)
ExecuteAll(row, ws) ==
    IF ws = <<>> THEN row ELSE ExecuteAll(Execute(row, Head(ws)), Tail(ws))

\* ------------------------------------------------------- anchored VWAP
\* 3 * typical_price * volume of one bar: typical_price = (high+low+close)/3.
PriceVolume3(bar) == (bar.high + bar.low + bar.close) * bar.volume

RECURSIVE CumulativePriceVolume3(_, _, _)
CumulativePriceVolume3(data, from, to) ==
    IF to < from THEN 0
    ELSE CumulativePriceVolume3(data, from, to - 1) + PriceVolume3(data[to])

RECURSIVE CumulativeVolume(_, _, _)
CumulativeVolume(data, from, to) ==
    IF to < from THEN 0
    ELSE CumulativeVolume(data, from, to - 1) + data[to].volume

\* Mutant: the sums run from the first bar of the series, not from the anchor.
calculate_anchored_vwap_from_start(data, anchor_date) ==
    IF anchor_date > Len(data) THEN <<>>
    ELSE [k \in 1..(Len(data) - anchor_date + 1) |->
            LET i == anchor_date + k - 1 IN
            [date |-> i,
             close |-> data[i].close,
             cumulative_price_volume3 |-> CumulativePriceVolume3(data, 1, i),
             cumulative_volume |-> CumulativeVolume(data, 1, i)]]

\* Mutant: an anchor later than every bar is replaced by the first bar.
calculate_anchored_vwap_all(data, anchor_date) ==
    LET a == IF anchor_date > Len(data) THEN 1 ELSE anchor_date IN
    [k \in 1..(Len(data) - a + 1) |->
        LET i == a + k - 1 IN
        [date |-> i,
         close |-> data[i].close,
         cumulative_price_volume3 |-> CumulativePriceVolume3(data, a, i),
         cumulative_volume |-> CumulativeVolume(data, a, i)]]

\* The rows of data dated >= anchor_date, each with the sums accumulated from
\* the anchor row on; vwap = cumulative_price_volume3 / (3 * cumulative_volume).
calculate_anchored_vwap(data, anchor_date) ==
    IF anchor_date > Len(data) THEN <<>>
    ELSE [k \in 1..(Len(data) - anchor_date + 1) |->
            LET i == anchor_date + k - 1 IN
            [date |-> i,
             close |-> data[i].close,
             cumulative_price_volume3 |-> CumulativePriceVolume3(data, anchor_date, i),
             cumulative_volume |-> CumulativeVolume(data, anchor_date, i)]]

\* close > vwap, close < vwap, close <= vwap, close >= vwap of one row. With a
\* zero cumulative volume the quotient is not a number and every comparison
\* is false.
CloseAboveVwap(r) ==
    /\ r.cumulative_volume > 0
    /\ 3 * r.close * r.cumulative_volume > r.cumulative_price_volume3

CloseBelowVwap(r) ==
    /\ r.cumulative_volume > 0
    /\ 3 * r.close * r.cumulative_volume < r.cumulative_price_volume3

CloseAtOrBelowVwap(r) ==
    /\ r.cumulative_volume > 0
    /\ 3 * r.close * r.cumulative_volume <= r.cumulative_price_volume3

CloseAtOrAboveVwap(r) ==
    /\ r.cumulative_volume > 0
    /\ 3 * r.close * r.cumulative_volume >= r.cumulative_price_volume3

\* ------------------------------------------------------------ detectors
RowsUpTo(df, current_date) == SelectSeq(df, LAMBDA r : r.date <= current_date)

\* Mutant: the two earlier bars must close strictly below the VWAP.
BuyPatternStrict(data, i) ==
    /\ CloseAboveVwap(data[i])
    /\ CloseBelowVwap(data[i - 1])
    /\ CloseBelowVwap(data[i - 2])

\* The three-bar test of find_b_signal on the rows i-2, i-1, i.
BuyPattern(data, i) ==
    /\ CloseAboveVwap(data[i])
    /\ CloseAtOrBelowVwap(data[i - 1])
    /\ CloseAtOrBelowVwap(data[i - 2])

\* Mutant: the two earlier bars must close strictly above the VWAP.
SellPatternStrict(data, i) ==
    /\ CloseBelowVwap(data[i])
    /\ CloseAboveVwap(data[i - 1])
    /\ CloseAboveVwap(data[i - 2])

\* The three-bar test of find_s_signal.
SellPattern(data, i) ==
    /\ CloseBelowVwap(data[i])
    /\ CloseAtOrAboveVwap(data[i - 1])
    /\ CloseAtOrAboveVwap(data[i - 2])

\* Mutant: the latest match is returned, not the first.
find_b_signal_latest(df, current_date) ==
    LET data == RowsUpTo(df, current_date)
        hits == {i \in 3..Len(data) : BuyPattern(data, i)}
    IN  IF Len(data) < 3 \/ hits = {} THEN None
        ELSE Some(data[CHOOSE i \in hits : \A j \in hits : i >= j].date)

find_b_signal(df, current_date) ==
    LET data == RowsUpTo(df, current_date)
        hits == {i \in 3..Len(data) : BuyPattern(data, i)}
    IN  IF Len(data) < 3 \/ hits = {} THEN None
        ELSE Some(data[CHOOSE i \in hits : \A j \in hits : i <= j].date)

find_s_signal(df, current_date) ==
    LET data == RowsUpTo(df, current_date)
        hits == {i \in 3..Len(data) : SellPattern(data, i)}
    IN  IF Len(data) < 3 \/ hits = {} THEN None
        ELSE Some(data[CHOOSE i \in hits : \A j \in hits : i <= j].date)

\* vwap_data.tail(4)
Tail4(df) == IF Len(df) <= 4 THEN df ELSE SubSeq(df, Len(df) - 3, Len(df))

\* Mutant: the last row alone decides, the row before it is not looked at.
find_two_bar_b_signal_last_row(last_four) ==
    LET n == Len(last_four) IN
    IF n < 2 THEN None
    ELSE IF CloseAboveVwap(last_four[n]) THEN Some(last_four[n].date) ELSE None

find_two_bar_b_signal(last_four) ==
    LET n == Len(last_four) IN
    IF n < 2 THEN None
    ELSE IF CloseAboveVwap(last_four[n]) /\ CloseAtOrBelowVwap(last_four[n - 1])
         THEN Some(last_four[n].date)
         ELSE None

\* Mutant: the SELL test on the last row and the first row given.
find_two_bar_s_signal_first_row(last_four) ==
    LET n == Len(last_four) IN
    IF n < 2 THEN None
    ELSE IF CloseBelowVwap(last_four[n]) /\ CloseAtOrAboveVwap(last_four[1])
         THEN Some(last_four[n].date)
         ELSE None

find_two_bar_s_signal(last_four) ==
    LET n == Len(last_four) IN
    IF n < 2 THEN None
    ELSE IF CloseBelowVwap(last_four[n]) /\ CloseAtOrAboveVwap(last_four[n - 1])
         THEN Some(last_four[n].date)
         ELSE None

\* ------------------------------------------------- process_stock_data
MIN_DATA_POINTS == 4

\* Mutant: the length test off by one.
EnoughDataStrict(data) == Len(data) > MIN_DATA_POINTS

\* Mutant: a window one bar short is processed.
EnoughDataOneShort(data) == Len(data) >= MIN_DATA_POINTS - 1

\* The window is long enough to be processed at all.
EnoughData(data) == Len(data) >= MIN_DATA_POINTS

\* split_factor_today != 1.0
SplitDetected(data, current_date) == data[current_date].split_factor # NoSplit

\* Mutant: the split branch also clears the transient signal.
SplitOverrideClearingTransient(data, current_date) ==
    <<update_all_time_high_info(data[current_date].close, current_date),
      update_last_trade_signal("BUY"),
      update_trade_signal("NULL")>>

\* The split branch: re-anchor to the split day's close and force BUY.
SplitOverride(data, current_date) ==
    <<update_all_time_high_info(data[current_date].close, current_date),
      update_last_trade_signal("BUY")>>

\* The row has a usable all-time high (both columns non-NULL).
HasState(row) == row.all_time_high # None /\ row.all_time_high_date # None

\* Mutant: the initial high taken from the last bar of the window.
ReadStateLastClose(row, data) ==
    IF HasState(row)
    THEN [current_all_time_high |-> row.all_time_high[1],
          current_all_time_high_date |-> row.all_time_high_date[1],
          last_trade_signal |-> row.last_trade_signal,
          writes |-> <<>>]
    ELSE [current_all_time_high |-> data[Len(data)].close,
          current_all_time_high_date |-> 1,
          last_trade_signal |-> "NULL",
          writes |-> <<update_all_time_high_info(data[Len(data)].close, 1)>>]

\* The SELECT and its two branches: the values the step goes on with, and the
\* initialisation write when the row has no all-time high yet.
ReadState(row, data) ==
    IF HasState(row)
    THEN [current_all_time_high |-> row.all_time_high[1],
          current_all_time_high_date |-> row.all_time_high_date[1],
          last_trade_signal |-> row.last_trade_signal,
          writes |-> <<>>]
    ELSE [current_all_time_high |-> data[1].close,
          current_all_time_high_date |-> 1,
          last_trade_signal |-> "NULL",
          writes |-> <<update_all_time_high_info(data[1].close, 1)>>]

\* The two states of the toggle, as the step tests them on the signal it read.
AwaitingSell(last_trade_signal) == last_trade_signal = "BUY"

\* Mutant: the BUY detector runs whatever the signal read.
AwaitingBuyAlways(last_trade_signal) == TRUE

AwaitingBuy(last_trade_signal) == last_trade_signal # "BUY"

\* Mutant: a two-bar match sets the transient signal only.
TodaySignalsTransientOnly(last_trade_signal, vwap_data) ==
    LET last_four == Tail4(vwap_data) IN
    IF AwaitingSell(last_trade_signal)
    THEN IF find_two_bar_s_signal(last_four) # None
         THEN <<update_trade_signal("SELL")>>
         ELSE <<update_trade_signal("NULL")>>
    ELSE IF find_two_bar_b_signal(last_four) # None
         THEN <<update_trade_signal("BUY")>>
         ELSE <<update_trade_signal("NULL")>>

\* Mutant: a two-bar BUY of today re-anchors the high to today's close.
TodaySignalsReanchoring(last_trade_signal, vwap_data) ==
    LET last_four == Tail4(vwap_data) IN
    IF AwaitingSell(last_trade_signal)
    THEN IF find_two_bar_s_signal(last_four) # None
         THEN <<update_trade_signal("SELL"), update_last_trade_signal("SELL")>>
         ELSE <<update_trade_signal("NULL")>>
    ELSE IF find_two_bar_b_signal(last_four) # None
         THEN <<update_trade_signal("BUY"), update_last_trade_signal("BUY"),
                update_all_time_high_info(vwap_data[Len(vwap_data)].close,
                                          vwap_data[Len(vwap_data)].date)>>
         ELSE <<update_trade_signal("NULL")>>

\* The is_today branch: the two-bar detectors on the last rows.
TodaySignals(last_trade_signal, vwap_data) ==
    LET last_four == Tail4(vwap_data) IN
    IF AwaitingSell(last_trade_signal)
    THEN IF find_two_bar_s_signal(last_four) # None
         THEN <<update_trade_signal("SELL"), update_last_trade_signal("SELL")>>
         ELSE <<update_trade_signal("NULL")>>
    ELSE IF find_two_bar_b_signal(last_four) # None
         THEN <<update_trade_signal("BUY"), update_last_trade_signal("BUY")>>
         ELSE <<update_trade_signal("NULL")>>

\* Mutant: any detector result is accepted, whatever its date.
MatchesAnyDate(signal_date, current_date) == signal_date # None

\* b_signal_date.date() == current_date_ts.date(), for a detector result.
MatchesCurrentDate(signal_date, current_date) ==
    signal_date # None /\ signal_date[1] = current_date

\* `if new_high:` and `if updated_high:`: a Decimal is true unless it is zero.
Truthy(d) == d # 0

\* The BUY re-anchor: the write, when the close of the BUY date passes the test.
ReanchorOnBuy(data, b_signal_date) ==
    IF Truthy(data[b_signal_date].close)
    THEN <<update_all_time_high_info(data[b_signal_date].close, b_signal_date)>>
    ELSE <<>>

RECURSIVE MaxClose_(_, _, _)
MaxClose_(data, from, to) ==
    IF from = to THEN data[to].close
    ELSE LET m == MaxClose_(data, from, to - 1) IN
         IF data[to].close > m THEN data[to].close ELSE m

\* new_data['close'].idxmax(): the first date carrying the maximum.
IdxMax(data, from, to) ==
    CHOOSE i \in from..to :
        /\ data[i].close = MaxClose_(data, from, to)
        /\ \A j \in from..(i - 1) : data[j].close # data[i].close

\* Mutant: the scan writes the maximum without comparing it with the high.
NewHighScanUnconditional(data, current_all_time_high, current_all_time_high_date) ==
    LET from == current_all_time_high_date + 1
        to == Len(data)
    IN  IF from > to THEN <<>>
        ELSE <<update_all_time_high_info(MaxClose_(data, from, to),
                                         IdxMax(data, from, to))>>

\* Mutant: the scan also takes a maximum equal to the high.
NewHighScanAtOrAbove(data, current_all_time_high, current_all_time_high_date) ==
    LET from == current_all_time_high_date + 1
        to == Len(data)
    IN  IF from > to THEN <<>>
        ELSE IF MaxClose_(data, from, to) >= current_all_time_high
             THEN <<update_all_time_high_info(MaxClose_(data, from, to),
                                              IdxMax(data, from, to))>>
             ELSE <<>>

\* The scan for a new maximum close among the bars after the anchor.
NewHighScan(data, current_all_time_high, current_all_time_high_date) ==
    LET from == current_all_time_high_date + 1
        to == Len(data)
    IN  IF from > to THEN <<>>
        ELSE IF MaxClose_(data, from, to) > current_all_time_high
             THEN <<update_all_time_high_info(MaxClose_(data, from, to),
                                              IdxMax(data, from, to))>>
             ELSE <<>>

\* Mutant: a confirmed signal of an earlier date sets the transient signal too.
HistoricalSignalsTransient(st, data, vwap_data, current_date) ==
    LET last == st.last_trade_signal
        b_signal_date ==
            IF AwaitingBuy(last) THEN find_b_signal(vwap_data, current_date) ELSE None
        b_signal_detected == MatchesCurrentDate(b_signal_date, current_date)
        s_signal_date ==
            IF AwaitingSell(last) THEN find_s_signal(vwap_data, current_date) ELSE None
        s_signal_detected == MatchesCurrentDate(s_signal_date, current_date)
        reanchor ==
            IF b_signal_detected THEN ReanchorOnBuy(data, b_signal_date[1]) ELSE <<>>
        high == IF reanchor # <<>> THEN reanchor[1].high ELSE st.current_all_time_high
        date == IF reanchor # <<>> THEN reanchor[1].date
                ELSE st.current_all_time_high_date
    IN  (IF b_signal_detected
         THEN <<update_trade_signal("BUY"), update_last_trade_signal("BUY")>>
         ELSE <<>>)
        \o (IF s_signal_detected
            THEN <<update_trade_signal("SELL"), update_last_trade_signal("SELL")>>
            ELSE <<>>)
        \o reanchor
        \o (IF AwaitingSell(last) THEN NewHighScan(data, high, date) ELSE <<>>)

\* Mutant: the scan for a new maximum runs in both states of the toggle.
HistoricalSignalsScanAlways(st, data, vwap_data, current_date) ==
    LET last == st.last_trade_signal
        b_signal_date ==
            IF AwaitingBuy(last) THEN find_b_signal(vwap_data, current_date) ELSE None
        b_signal_detected == MatchesCurrentDate(b_signal_date, current_date)
        s_signal_date ==
            IF AwaitingSell(last) THEN find_s_signal(vwap_data, current_date) ELSE None
        s_signal_detected == MatchesCurrentDate(s_signal_date, current_date)
        reanchor ==
            IF b_signal_detected THEN ReanchorOnBuy(data, b_signal_date[1]) ELSE <<>>
        high == IF reanchor # <<>> THEN reanchor[1].high ELSE st.current_all_time_high
        date == IF reanchor # <<>> THEN reanchor[1].date
                ELSE st.current_all_time_high_date
    IN  (IF b_signal_detected THEN <<update_last_trade_signal("BUY")>> ELSE <<>>)
        \o (IF s_signal_detected THEN <<update_last_trade_signal("SELL")>> ELSE <<>>)
        \o reanchor
        \o NewHighScan(data, high, date)

\* The branch of the dates before today: the three-bar detectors.
HistoricalSignals(st, data, vwap_data, current_date) ==
    LET last == st.last_trade_signal
        b_signal_date ==
            IF AwaitingBuy(last) THEN find_b_signal(vwap_data, current_date) ELSE None
        b_signal_detected == MatchesCurrentDate(b_signal_date, current_date)
        s_signal_date ==
            IF AwaitingSell(last) THEN find_s_signal(vwap_data, current_date) ELSE None
        s_signal_detected == MatchesCurrentDate(s_signal_date, current_date)
        reanchor ==
            IF b_signal_detected THEN ReanchorOnBuy(data, b_signal_date[1]) ELSE <<>>
        high == IF reanchor # <<>> THEN reanchor[1].high ELSE st.current_all_time_high
        date == IF reanchor # <<>> THEN reanchor[1].date
                ELSE st.current_all_time_high_date
    IN  (IF b_signal_detected THEN <<update_last_trade_signal("BUY")>> ELSE <<>>)
        \o (IF s_signal_detected THEN <<update_last_trade_signal("SELL")>> ELSE <<>>)
        \o reanchor
        \o (IF AwaitingSell(last) THEN NewHighScan(data, high, date) ELSE <<>>)

\* The writes of one call, in the order the code issues them.
process_stock_data(row, current_date, is_today, daily_data) ==
    IF daily_data = <<>> THEN <<>>
    ELSE IF ~EnoughData(daily_data) THEN <<>>
    ELSE IF SplitDetected(daily_data, current_date)
         THEN SplitOverride(daily_data, current_date)
    ELSE LET st == ReadState(row, daily_data)
             vwap_data == calculate_anchored_vwap(daily_data,
                                                  st.current_all_time_high_date)
         IN  IF vwap_data = <<>> THEN st.writes
             ELSE st.writes \o
                  (IF is_today THEN TodaySignals(st.last_trade_signal, vwap_data)
                   ELSE HistoricalSignals(st, daily_data, vwap_data, current_date))

\* -------------------------------------------------------------- zones
ZoneRecord(color, date) == [state_color |-> color, state_change_date |-> date]

\* load_all_zones: the rows of the table in ascending order of
\* state_change_date (the classifier writes at most one row per date).
load_all_zones(table) ==
    [k \in 1..Len(table) |->
        table[CHOOSE i \in 1..Len(table) :
                Cardinality({j \in 1..Len(table) :
                    table[j].state_change_date < table[i].state_change_date}) = k - 1]]

\* ---------------------------------------------------- zone classifier
RECURSIVE SumClose(_, _, _)
SumClose(data, from, to) ==
    IF to < from THEN 0 ELSE SumClose(data, from, to - 1) + data[to].close

RECURSIVE Power(_, _)
Power(b, n) == IF n = 0 THEN 1 ELSE b * Power(b, n - 1)

\* rolling(window).mean() is a number from the row on that completes the
\* first window; its value at row t is SmaSum(data, t) / SmaWindow.
SmaDefined(data, t) == t >= SmaWindow
SmaSum(data, t) == SumClose(data, t - SmaWindow + 1, t)

\* ewm(span, adjust=False).mean(): e[1] = close[1] and
\* e[t] = (1 - a) * e[t-1] + a * close[t] with a = 2 / (span + 1); the value
\* kept is e[t] * (span + 1)^(t-1), an integer. It is a number at every row.
RECURSIVE EmaScaled(_, _)
EmaScaled(data, t) ==
    IF t = 1 THEN data[1].close
    ELSE (EmaSpan - 1) * EmaScaled(data, t - 1)
         + 2 * data[t].close * Power(EmaSpan + 1, t - 2)

\* new_zone: green if close > sma and ema > sma, else red.
Classification(data, t) ==
    IF /\ data[t].close * SmaWindow > SmaSum(data, t)
       /\ EmaScaled(data, t) * SmaWindow > SmaSum(data, t) * Power(EmaSpan + 1, t - 1)
    THEN "green" ELSE "red"

\* Mutant: every classified date gets a record.
RECURSIVE ZoneChangesEveryDate(_, _, _)
ZoneChangesEveryDate(data, t, current_zone) ==
    IF t > Len(data) THEN <<>>
    ELSE IF SmaDefined(data, t)
         THEN <<ZoneRecord(Classification(data, t), t)>>
              \o ZoneChangesEveryDate(data, t + 1, Classification(data, t))
         ELSE ZoneChangesEveryDate(data, t + 1, current_zone)

\* Mutant: the first classified date always gets a record.
RECURSIVE ZoneChangesFirstAlways(_, _, _)
ZoneChangesFirstAlways(data, t, current_zone) ==
    IF t > Len(data) THEN <<>>
    ELSE IF SmaDefined(data, t)
         THEN LET new_zone == Classification(data, t) IN
              IF new_zone # current_zone \/ t = SmaWindow
              THEN <<ZoneRecord(new_zone, t)>>
                   \o ZoneChangesFirstAlways(data, t + 1, new_zone)
              ELSE ZoneChangesFirstAlways(data, t + 1, current_zone)
         ELSE ZoneChangesFirstAlways(data, t + 1, current_zone)

\* The loop over the rows from row t on, entered with current_zone: the
\* records inserted, in order.
RECURSIVE ZoneChanges(_, _, _)
ZoneChanges(data, t, current_zone) ==
    IF t > Len(data) THEN <<>>
    ELSE IF SmaDefined(data, t)
         THEN LET new_zone == Classification(data, t) IN
              IF new_zone # current_zone
              THEN <<ZoneRecord(new_zone, t)>> \o ZoneChanges(data, t + 1, new_zone)
              ELSE ZoneChanges(data, t + 1, current_zone)
         ELSE ZoneChanges(data, t + 1, current_zone)

\* Mutant: the first record dated at or before target_date decides.
find_zone_for_date_first(zones_list, target_date) ==
    IF zones_list = <<>> \/ zones_list[1].state_change_date > target_date THEN "red"
    ELSE zones_list[1].state_color

\* The color of the last record of the leading run of records dated at or
\* before target_date; red without zone data or without such a record.
find_zone_for_date(zones_list, target_date) ==
    LET upto == {i \in 1..Len(zones_list) :
                    \A j \in 1..i : zones_list[j].state_change_date <= target_date}
    IN  IF zones_list = <<>> \/ upto = {} THEN "red"
        ELSE zones_list[CHOOSE i \in upto : \A j \in upto : j <= i].state_color

\* load_all_zones: the records in ascending order of state_change_date.
ZoneLists(lastDate, maxLen) ==
    {z \in UNION {[1..k -> {ZoneRecord(c, d) : c \in {"green", "red"},
                                              d \in 1..lastDate}] : k \in 0..maxLen} :
        \A i \in 1..(Len(z) - 1) :
            z[i].state_change_date < z[i + 1].state_change_date}

NoZones == <<<<>>, <<>>>>

\* Mutant: in a red zone no BUY is written.
process_stock_data_gated(row, current_date, market_zone, is_today, daily_data) ==
    LET ws == process_stock_data(row, current_date, is_today, daily_data) IN
    IF market_zone = "red" THEN SelectSeq(ws, LAMBDA w : w.signal # "BUY") ELSE ws

\* The call as the replay makes it: market_zone goes to the log line and
\* nowhere else.
process_stock_data_in_zone(row, current_date, market_zone, is_today, daily_data) ==
    process_stock_data(row, current_date, is_today, daily_data)

\* ----------------------------------------------------- failing storage
\* The SELECT of the row, as one of the storage calls of a step.
Select == [op |-> "select", high |-> 0, date |-> 0, signal |-> "NULL"]

Call(c, ok) == [call |-> c, ok |-> ok]

\* The storage calls a step issues, in order, when none of them fails: the
\* split branch writes without reading, every other branch reads the row first.
StorageCalls(row, current_date, market_zone, is_today, daily_data) ==
    LET ws == process_stock_data_in_zone(row, current_date, market_zone,
                                         is_today, daily_data)
    IN  IF daily_data = <<>> \/ ~EnoughData(daily_data) THEN <<>>
        ELSE IF SplitDetected(daily_data, current_date) THEN ws
        ELSE <<Select>> \o ws

\* Mutant: the step goes on after a failed initial write.
LastCallIssuedAlways(row, all, fails) == Len(all)

\* The number of calls the step gets to when the calls numbered in fails
\* fail: a failed SELECT raises into the handler that ends the step, a failed
\* initial write makes the step return, any other failed write is logged by
\* the update function and the step goes on.
LastCallIssued(row, all, fails) ==
    IF all # <<>> /\ all[1] = Select /\ 1 \in fails THEN 1
    ELSE IF all # <<>> /\ all[1] = Select /\ ~HasState(row) /\ 2 \in fails THEN 2
    ELSE Len(all)

\* The calls of a step with their outcomes.
Outcome(row, current_date, market_zone, is_today, daily_data, fails) ==
    LET all == StorageCalls(row, current_date, market_zone, is_today, daily_data)
    IN  [k \in 1..LastCallIssued(row, all, fails) |-> Call(all[k], k \notin fails)]

\* Mutant: a write that failed is applied all the same.
SucceededOrNot(cs) ==
    LET done == SelectSeq(cs, LAMBDA c : c.call # Select)
    IN  [k \in 1..Len(done) |-> done[k].call]

\* The writes among the calls that went through.
Succeeded(cs) ==
    LET done == SelectSeq(cs, LAMBDA c : c.ok /\ c.call # Select)
    IN  [k \in 1..Len(done) |-> done[k].call]

FailureSets(n) == {S \in SUBSET (1..n) : Cardinality(S) <= MaxFailures}

\* ------------------------------------------------------------ reporting
Symbol == "SYM"

\* The symbols whose trade_signal is BUY, and those whose trade_signal is SELL.
fetch_buy_sell_signals(row) ==
    [buy_signals |-> IF row.trade_signal = "BUY" THEN {Symbol} ELSE {},
     sell_signals |-> IF row.trade_signal = "SELL" THEN {Symbol} ELSE {}]

\* ------------------------------------------------------------- replay
\* The step for current_date takes the split branch.
SplitApplied(data, current_date) ==
    EnoughData(data) /\ SplitDetected(data, current_date)

\* The detector-confirmed signal among the writes of a step, "NULL" if none: a
\* write of last_trade_signal by a step that did not take the split branch.
Confirmation(ws, data, current_date) ==
    LET hits == {i \in 1..Len(ws) : ws[i].op = "update_last_trade_signal"} IN
    IF hits = {} \/ SplitApplied(data, current_date)
    THEN "NULL"
    ELSE ws[CHOOSE i \in hits : \A j \in hits : j <= i].signal

\* Mutant: the date before the last one is flagged as well.
IsTodayFromLastButOne(day, unique_dates) == day >= unique_dates - 1

\* is_today: the position is the last one of unique_dates.
IsToday(day, unique_dates) == day = unique_dates

\* Mutant: a fixed lookback of three bars.
DailyDataLookback(full_data, current_day) ==
    IF current_day <= 3 THEN SubSeq(full_data, 1, current_day)
    ELSE SubSeq(full_data, current_day - 2, current_day)

\* Mutant: the window is not cut at the current day.
DailyDataWhole(full_data, current_day) == full_data

\* full_data.loc[:current_day]
DailyData(full_data, current_day) == SubSeq(full_data, 1, current_day)

\* One pass of the loop over unique_dates, the call for date day_idx, with
\* the storage calls numbered in fails failing; the pass for the last date is
\* followed by the report. With watch, the call is added to invocations and a
\* second replay of the same bars under its own zone history takes the same
\* pass beside it.
StepWith(fails, watch) ==
    /\ fetched
    /\ day_idx <= Len(bars)
    /\ LET current_day == day_idx
           is_today == IsToday(day_idx, Len(bars))
           daily_data == DailyData(bars, current_day)
           c == Confirmation(writes', daily_data, current_day)
           ws2 == process_stock_data_in_zone(stocks2, current_day,
                         find_zone_for_date(zones[2], current_day),
                         is_today, daily_data)
       IN  /\ calls' = Outcome(stocks, current_day,
                                find_zone_for_date(zones[1], current_day),
                                is_today, daily_data, fails)
           /\ writes' = Succeeded(calls')
           /\ stocks' = ExecuteAll(stocks, writes')
           /\ before' = stocks
           /\ confirmed' = IF c = "NULL" THEN confirmed ELSE c
           /\ forced' = IF SplitApplied(daily_data, current_day) THEN TRUE
                         ELSE IF c # "NULL" THEN FALSE ELSE forced
           /\ report' = IF is_today THEN Some(fetch_buy_sell_signals(stocks'))
                        ELSE report
           /\ IF watch
              THEN /\ stocks2' = ExecuteAll(stocks2, ws2)
                   /\ writes2' = ws2
                   /\ invocations' = Append(invocations,
                                            [current_date |-> current_day,
                                             is_today |-> is_today,
                                             daily_data |-> daily_data])
              ELSE UNCHANGED <<stocks2, writes2, invocations>>
    /\ day_idx' = day_idx + 1
    /\ UNCHANGED <<bars, run, at_start, fetched, zones, zone_state, spy_data, call, ret,
                   inflight, stocks_table, events>>

\* The pass when every storage call goes through.
Step == StepWith({}, FALSE)

\* The number of storage calls the pass for date day_idx issues.
CallsOfStep ==
    Len(StorageCalls(stocks, day_idx, find_zone_for_date(zones[1], day_idx),
                     IsToday(day_idx, Len(bars)), DailyData(bars, day_idx)))

\* The pass with storage calls that may fail.
StepFailing ==
    /\ day_idx <= Len(bars)
    /\ \E fails \in FailureSets(CallsOfStep) : StepWith(fails, FALSE)

\* The pass of two replays side by side, the calls recorded.
StepZones == StepWith({}, TRUE)

\* The run in progress is over.
RunOver == ~fetched \/ day_idx > Len(bars)

\* The next timer-triggered run: the cache may have grown by then; the replay
\* starts again at the first date, on the row the earlier run left.
NextRun(alphabet, maxBars) ==
    /\ RunOver
    /\ run < MaxRuns
    /\ \E n \in 0..(maxBars - Len(bars)) :
         \E more \in [1..n -> alphabet] : bars' = bars \o more
    /\ day_idx' = 1
    /\ run' = run + 1
    /\ writes' = <<>>
    /\ calls' = <<>>
    /\ invocations' = <<>>
    /\ report' = None
    /\ before' = stocks
    /\ at_start' = stocks
    /\ fetched' = TRUE
    /\ confirmed' = "NULL"
    /\ forced' = FALSE
    /\ UNCHANGED <<stocks, zones, stocks2, writes2, zone_state, spy_data, call, ret,
                   inflight, stocks_table, events>>

\* A run in which fetch_data_from_cache returns nothing for the instrument:
\* the instrument is passed over and the run ends with the report.
NextRunNoData ==
    /\ RunOver
    /\ run < MaxRuns
    /\ day_idx' = 1
    /\ run' = run + 1
    /\ writes' = <<>>
    /\ calls' = <<>>
    /\ invocations' = <<>>
    /\ report' = Some(fetch_buy_sell_signals(stocks))
    /\ before' = stocks
    /\ at_start' = stocks
    /\ fetched' = FALSE
    /\ confirmed' = "NULL"
    /\ forced' = FALSE
    /\ UNCHANGED <<bars, stocks, zones, stocks2, writes2, zone_state, spy_data, call, ret,
                   inflight, stocks_table, events>>

InitWith(histories) ==
    /\ bars \in histories
    /\ day_idx = 1
    /\ stocks = NoRow
    /\ before = NoRow
    /\ writes = <<>>
    /\ confirmed = "NULL"
    /\ forced = FALSE
    /\ run = 1
    /\ at_start = NoRow
    /\ fetched = TRUE
    /\ calls = <<>>
    /\ invocations = <<>>
    /\ report = None
    /\ stocks2 = NoRow
    /\ writes2 = <<>>
    /\ spy_data = <<>>
    /\ call = NoCall
    /\ ret = None
    /\ inflight = <<>>
    /\ stocks_table = <<>>
    /\ events = <<>>

\* Wide closes, short histories, one replay from an empty row.
Init == InitWith(SeqsUpTo(WideBars, MaxBars)) /\ zones = NoZones /\ zone_state = <<>>
Next == Step
Spec == Init /\ [][Next]_vars

\* Narrow closes, long histories, one replay.
InitLong ==
    InitWith(SeqsUpTo(NarrowBars, LongBars)) /\ zones = NoZones /\ zone_state = <<>>
NextLong == Step
SpecLong == InitLong /\ [][NextLong]_vars

\* Narrow closes, two runs, the second over the same or a grown history.
NextRunNarrow == NextRun(NarrowBars, RerunBars)
InitRerun ==
    InitWith(SeqsUpTo(NarrowBars, RerunBars)) /\ zones = NoZones /\ zone_state = <<>>
NextRerun == Step \/ NextRunNarrow
SpecRerun == InitRerun /\ [][NextRerun]_vars

\* Narrow closes, runs with failing storage calls and runs without data.
NextRunFail == NextRun(NarrowBars, FailBars)
InitFail ==
    InitWith(SeqsUpTo(NarrowBars, FailBars)) /\ zones = NoZones /\ zone_state = <<>>
NextFail == StepFailing \/ NextRunFail \/ NextRunNoData
SpecFail == InitFail /\ [][NextFail]_vars

\* Narrow closes, runs that each replay the same history: the cache has not
\* grown between one timer-triggered run and the next.
NextRunSame == NextRun(NarrowBars, Len(bars))
InitReplay ==
    InitWith(SeqsUpTo(NarrowBars, ReplayBars)) /\ zones = NoZones /\ zone_state = <<>>
NextReplay == Step \/ NextRunSame
SpecReplay == InitReplay /\ [][NextReplay]_vars

\* ------------------------------------------------ runs in flight at once
\* Two timer-triggered runs replay the same instrument over the same history
\* on their own connections, at any interleaving of their storage calls: the
\* SELECT of a step and each of its UPDATEs (every update function commits
\* its own statement). The zone phase, which writes no row of table stocks,
\* is left out.
Runs == {1, 2}

ConcurrentBars ==
    {PriceBar(c, c, c, 1, NoSplit) : c \in 1..2} \cup {PriceBar(1, 1, 1, 1, NoSplit + 1)}

\* The local variables of a run: where it stands, the date its loop is at,
\* the writes of the step under way that it has yet to issue, and whether it
\* has had the instrument to itself since it began.
RunLocals(pc, day, pending, alone) ==
    [pc |-> pc, day_idx |-> day, pending |-> pending, alone |-> alone]

Replaying(r) == inflight[r].pc = "stocks"

\* The run has taken the step for the last date.
Replayed(r) ==
    Replaying(r) /\ inflight[r].pending = <<>> /\ inflight[r].day_idx > Len(bars)

\* Mutant: a step issues its first write only.
StepWritesFirstOnly(r) ==
    LET d == inflight[r].day_idx
        ws == process_stock_data(stocks, d, IsToday(d, Len(bars)), DailyData(bars, d))
    IN  IF ws = <<>> THEN ws ELSE <<ws[1]>>

\* The writes of the step of run r for its date, from the row as the step
\* reads it now.
StepWrites(r) ==
    LET d == inflight[r].day_idx
    IN  process_stock_data(stocks, d, IsToday(d, Len(bars)), DailyData(bars, d))

\* main starts: the run gets to the replay of the instrument.
StartRun(r) ==
    /\ inflight[r].pc = "idle"
    /\ LET busy == {q \in Runs : Replaying(q) /\ ~Replayed(q)} IN
       inflight' = [q \in Runs |->
                      IF q = r THEN RunLocals("stocks", 1, <<>>, busy = {})
                      ELSE IF q \in busy THEN [inflight[q] EXCEPT !.alone = FALSE]
                      ELSE inflight[q]]
    /\ UNCHANGED <<bars, day_idx, stocks, before, writes, confirmed, forced, run,
                   at_start, fetched, calls, invocations, report, zones, stocks2,
                   writes2, zone_state, spy_data, call, ret, stocks_table, events>>

\* The step for the next date begins: up to the SELECT (the split branch and
\* the early returns come before it), which fixes the writes the step will
\* issue. A step without writes is over at once.
BeginStep(r) ==
    /\ Replaying(r) /\ inflight[r].pending = <<>>
    /\ inflight[r].day_idx <= Len(bars)
    /\ inflight' = [inflight EXCEPT
                      ![r].pending = StepWrites(r),
                      ![r].day_idx = IF StepWrites(r) = <<>> THEN @ + 1 ELSE @]
    /\ UNCHANGED <<bars, day_idx, stocks, before, writes, confirmed, forced, run,
                   at_start, fetched, calls, invocations, report, zones, stocks2,
                   writes2, zone_state, spy_data, call, ret, stocks_table, events>>

\* The next UPDATE of the step under way; after the last one the loop moves
\* to the next date.
IssueWrite(r) ==
    /\ Replaying(r) /\ inflight[r].pending # <<>>
    /\ stocks' = Execute(stocks, Head(inflight[r].pending))
    /\ inflight' = [inflight EXCEPT
                      ![r].pending = Tail(@),
                      ![r].day_idx = IF Len(inflight[r].pending) = 1 THEN @ + 1 ELSE @]
    /\ UNCHANGED <<bars, day_idx, before, writes, confirmed, forced, run,
                   at_start, fetched, calls, invocations, report, zones, stocks2,
                   writes2, zone_state, spy_data, call, ret, stocks_table, events>>

InitConc ==
    /\ bars \in SeqsUpTo(ConcurrentBars, ConcBars)
    /\ day_idx = 1 /\ stocks = NoRow /\ before = NoRow
    /\ writes = <<>> /\ confirmed = "NULL" /\ forced = FALSE
    /\ run = 1 /\ at_start = NoRow /\ fetched = TRUE /\ calls = <<>>
    /\ invocations = <<>> /\ report = None /\ zones = NoZones
    /\ stocks2 = NoRow /\ writes2 = <<>>
    /\ zone_state = <<>> /\ spy_data = <<>> /\ call = NoCall /\ ret = None
    /\ inflight = [r \in Runs |-> RunLocals("idle", 1, <<>>, TRUE)]
    /\ stocks_table = <<>> /\ events = <<>>

NextConc == \E r \in Runs : StartRun(r) \/ BeginStep(r) \/ IssueWrite(r)
SpecConc == InitConc /\ [][NextConc]_vars

\* The replay is not running: a specification of single calls of a function
\* leaves its variables at these values.
NoStockReplay ==
    /\ bars = <<>> /\ day_idx = 1 /\ stocks = NoRow /\ before = NoRow
    /\ writes = <<>> /\ confirmed = "NULL" /\ forced = FALSE
    /\ at_start = NoRow /\ fetched = FALSE /\ calls = <<>>
    /\ invocations = <<>> /\ report = None
    /\ stocks2 = NoRow /\ writes2 = <<>>
    /\ inflight = <<>> /\ stocks_table = <<>> /\ events = <<>>

NoReplay == NoStockReplay /\ run = 1 /\ zones = NoZones

stock_vars ==
    <<bars, day_idx, stocks, before, writes, confirmed, forced, at_start,
      fetched, calls, invocations, report, stocks2, writes2, inflight,
      stocks_table, events>>

replay_vars == <<stock_vars, run, zones>>

\* The value a call returned, with the name of the function called.
Returned(fn, value) == Some([fn |-> fn, value |-> value])

\* Single calls of the four detectors on an anchored series: closes at, below
\* and above the VWAP, and a bar without volume.
DetectorBars ==
    {PriceBar(c, c, c, 1, NoSplit) : c \in 1..2} \cup {PriceBar(1, 1, 1, 0, NoSplit)}

InitDetect ==
    /\ NoReplay /\ zone_state = <<>> /\ spy_data = <<>>
    /\ call \in {[fn |-> "detector",
                  df |-> calculate_anchored_vwap(b, a),
                  current_date |-> d] :
                    b \in SeqsUpTo(DetectorBars, DetectLen) \ {<<>>},
                    a \in 1..DetectLen, d \in 1..DetectLen}
    /\ ret = None

CallFindBSignal ==
    /\ call.fn = "detector" /\ ret = None
    /\ ret' = Returned("find_b_signal", find_b_signal(call.df, call.current_date))
    /\ UNCHANGED <<replay_vars, zone_state, spy_data, call>>

CallFindSSignal ==
    /\ call.fn = "detector" /\ ret = None
    /\ ret' = Returned("find_s_signal", find_s_signal(call.df, call.current_date))
    /\ UNCHANGED <<replay_vars, zone_state, spy_data, call>>

CallFindTwoBarBSignal ==
    /\ call.fn = "detector" /\ ret = None
    /\ ret' = Returned("find_two_bar_b_signal", find_two_bar_b_signal(call.df))
    /\ UNCHANGED <<replay_vars, zone_state, spy_data, call>>

CallFindTwoBarSSignal ==
    /\ call.fn = "detector" /\ ret = None
    /\ ret' = Returned("find_two_bar_s_signal", find_two_bar_s_signal(call.df))
    /\ UNCHANGED <<replay_vars, zone_state, spy_data, call>>

NextDetect ==
    \/ CallFindBSignal \/ CallFindSSignal
    \/ CallFindTwoBarBSignal \/ CallFindTwoBarSSignal
SpecDetect == InitDetect /\ [][NextDetect]_vars

\* Single calls of calculate_anchored_vwap on a series and, beside it, on a
\* series with the same bars from the anchor on and other bars before it:
\* bars whose typical price differs from the close, volumes 0, 1 and 2.
VwapBars ==
    {PriceBar(1, 1, 1, 1, NoSplit), PriceBar(1, 2, 1, 2, NoSplit),
     PriceBar(2, 2, 2, 0, NoSplit)}

InitVwap ==
    /\ NoReplay /\ zone_state = <<>> /\ spy_data = <<>>
    /\ call \in {[fn |-> "calculate_anchored_vwap",
                  data |-> b,
                  other |-> o \o SubSeq(b, a, Len(b)),
                  anchor_date |-> a] :
                    b \in SeqsUpTo(VwapBars, VwapLen),
                    o \in SeqsUpTo(VwapBars, VwapLen),
                    a \in 1..(VwapLen + 1)}
    /\ Len(call.other) = Len(call.data)
    /\ ret = None

CallCalculateAnchoredVwap ==
    /\ call.fn = "calculate_anchored_vwap" /\ ret = None
    /\ ret' = Returned("calculate_anchored_vwap",
                       [rows |-> calculate_anchored_vwap(call.data, call.anchor_date),
                        other_rows |-> calculate_anchored_vwap(call.other,
                                                               call.anchor_date)])
    /\ UNCHANGED <<replay_vars, zone_state, spy_data, call>>

NextVwap == CallCalculateAnchoredVwap
SpecVwap == InitVwap /\ [][NextVwap]_vars

\* Single calls of find_zone_for_date on the zone sequences in ascending order
\* of date (as load_all_zones returns them), for dates before, between, on
\* and after the dates of the records.
SortedZoneLists(lastDate, maxLen) ==
    {z \in UNION {[1..k -> {ZoneRecord(c, d) : c \in {"green", "red"},
                                              d \in 1..lastDate}] : k \in 0..maxLen} :
        \A i \in 1..(Len(z) - 1) :
            z[i].state_change_date <= z[i + 1].state_change_date}

InitLookup ==
    /\ NoReplay /\ zone_state = <<>> /\ spy_data = <<>>
    /\ call \in {[fn |-> "find_zone_for_date", zones_list |-> z, target_date |-> d] :
                    z \in SortedZoneLists(LookupDates, LookupZones),
                    d \in 0..(LookupDates + 1)}
    /\ ret = None

CallFindZoneForDate ==
    /\ call.fn = "find_zone_for_date" /\ ret = None
    /\ ret' = Returned("find_zone_for_date",
                       find_zone_for_date(call.zones_list, call.target_date))
    /\ UNCHANGED <<replay_vars, zone_state, spy_data, call>>

NextLookup == CallFindZoneForDate
SpecLookup == InitLookup /\ [][NextLookup]_vars

\* The zone phase of a run: iterate_spy_zones on the reference series, then
\* load_all_zones at the start of iterate_stocks_individually. call keeps
\* the table as the run found it, ret how iterate_spy_zones ended.
SpyBars == {PriceBar(c, c, c, 1, NoSplit) : c \in 1..2}

ZonePhase(series, table, outcome) ==
    /\ run < SpyRuns
    /\ run' = run + 1
    /\ call' = [fn |-> "iterate_spy_zones", zone_state |-> zone_state]
    /\ spy_data' = series
    /\ zone_state' = table
    /\ zones' = <<load_all_zones(table), <<>>>>
    /\ ret' = Returned("iterate_spy_zones", outcome)
    /\ UNCHANGED stock_vars

\* Mutant: the rows of the table are kept and the new records added.
iterate_spy_zones_append ==
    \E series \in SeqsUpTo(SpyBars, SpyLen) \ {<<>>} :
        ZonePhase(series, zone_state \o ZoneChanges(series, 1, "red"), "completed")

\* The reference series is fetched, the table emptied and the records of the
\* series inserted.
iterate_spy_zones ==
    \E series \in SeqsUpTo(SpyBars, SpyLen) \ {<<>>} :
        ZonePhase(series, ZoneChanges(series, 1, "red"), "completed")

\* fetch_data_from_cache returns nothing (no rows, or an error it caught):
\* iterate_spy_zones returns before the DELETE.
iterate_spy_zones_no_data == ZonePhase(<<>>, zone_state, "no data")

\* The DELETE raises, or one of the INSERTs does after n of them went
\* through: the handler of iterate_spy_zones logs it and the run goes on.
iterate_spy_zones_failing ==
    \E series \in SeqsUpTo(SpyBars, SpyLen) \ {<<>>} :
        \/ ZonePhase(series, zone_state, "failed")
        \/ \E n \in 0..(Len(ZoneChanges(series, 1, "red")) - 1) :
              ZonePhase(series, SubSeq(ZoneChanges(series, 1, "red"), 1, n), "failed")

InitSpy ==
    /\ NoStockReplay /\ run = 0 /\ zones = NoZones
    /\ zone_state = <<>> /\ spy_data = <<>>
    /\ call = NoCall /\ ret = None

NextSpy == iterate_spy_zones \/ iterate_spy_zones_no_data \/ iterate_spy_zones_failing
SpecSpy == InitSpy /\ [][NextSpy]_vars

\* ---------------------------------------------------------- a run of main
\* One run of main over two instruments, operation by operation: the fetch of
\* the reference series, the DELETE and each INSERT of iterate_spy_zones,
\* then load_all_zones and, for each symbol in turn, the fetch of its history
\* and one call of process_stock_data per date, then the report.
stock_symbols == <<Symbol, "SYN">>

MainStockBars == {PriceBar(c, c, c, 1, NoSplit) : c \in 1..2}

\* The tables an earlier run may have left in zone_state.
EarlierZones == {ZoneChanges(s, 1, "red") : s \in SeqsUpTo(SpyBars, MainSpyLen)}

\* The local variables of the run: where it stands, the records the
\* classifier has yet to insert, and the position of the loop over
\* stock_symbols.
MainLocals(pc, inserts, symbol_idx) ==
    [pc |-> pc, inserts |-> inserts, symbol_idx |-> symbol_idx]

Event(op, symbol, date, zone) ==
    [op |-> op, symbol |-> symbol, date |-> date, zone |-> zone]

main_idle ==
    <<before, writes, confirmed, forced, run, at_start, fetched, calls,
      invocations, stocks, stocks2, writes2, call, ret>>

\* iterate_spy_zones fetches the reference series.
FetchSpy ==
    /\ inflight[1].pc = "spy"
    /\ \E series \in SeqsUpTo(SpyBars, MainSpyLen) :
          /\ spy_data' = series
          /\ inflight' = <<MainLocals("delete", ZoneChanges(series, 1, "red"), 1)>>
    /\ events' = Append(events, Event("fetch_spy", "SPY", 0, "none"))
    /\ UNCHANGED <<main_idle, bars, day_idx, zones, zone_state, stocks_table, report>>

\* The fetch returns nothing: iterate_spy_zones returns.
FetchSpyNoData ==
    /\ inflight[1].pc = "spy"
    /\ spy_data' = <<>>
    /\ inflight' = <<MainLocals("load", <<>>, 1)>>
    /\ events' = Append(events, Event("fetch_spy", "SPY", 0, "none"))
    /\ UNCHANGED <<main_idle, bars, day_idx, zones, zone_state, stocks_table, report>>

\* DELETE FROM zone_state, committed.
DeleteZones ==
    /\ inflight[1].pc = "delete"
    /\ zone_state' = <<>>
    /\ inflight' = [inflight EXCEPT ![1].pc = "insert"]
    /\ events' = Append(events, Event("delete", "SPY", 0, "none"))
    /\ UNCHANGED <<main_idle, bars, day_idx, zones, spy_data, stocks_table, report>>

\* The next INSERT of the loop over the reference series, committed.
InsertZone ==
    /\ inflight[1].pc = "insert" /\ inflight[1].inserts # <<>>
    /\ zone_state' = Append(zone_state, Head(inflight[1].inserts))
    /\ inflight' = [inflight EXCEPT ![1].inserts = Tail(@)]
    /\ events' = Append(events,
                        Event("insert", "SPY",
                              Head(inflight[1].inserts).state_change_date,
                              Head(inflight[1].inserts).state_color))
    /\ UNCHANGED <<main_idle, bars, day_idx, zones, spy_data, stocks_table, report>>

\* The DELETE or an INSERT raises: the handler of iterate_spy_zones logs it
\* and main goes on.
ZoneWriteFailing ==
    /\ \/ inflight[1].pc = "delete"
       \/ inflight[1].pc = "insert" /\ inflight[1].inserts # <<>>
    /\ inflight' = <<MainLocals("load", <<>>, 1)>>
    /\ events' = Append(events, Event("zone_error", "SPY", 0, "none"))
    /\ UNCHANGED <<main_idle, bars, day_idx, zones, zone_state, spy_data,
                   stocks_table, report>>

\* iterate_stocks_individually begins: fetch_all_stocks, load_all_zones.
LoadZones ==
    /\ \/ inflight[1].pc = "load"
       \/ inflight[1].pc = "insert" /\ inflight[1].inserts = <<>>
    /\ zones' = <<load_all_zones(zone_state), <<>>>>
    /\ inflight' = <<MainLocals("fetch", <<>>, 1)>>
    /\ events' = Append(events, Event("load_all_zones", "SPY", 0, "none"))
    /\ UNCHANGED <<main_idle, bars, day_idx, zone_state, spy_data, stocks_table, report>>

\* The history of the next symbol is fetched; a symbol without data is
\* passed over.
FetchInstrument ==
    /\ inflight[1].pc = "fetch"
    /\ inflight[1].symbol_idx <= Len(stock_symbols)
    /\ \E full_data \in SeqsUpTo(MainStockBars, MainBars) \cup {<<>>} :
          /\ bars' = full_data
          /\ inflight' = IF full_data = <<>>
                         THEN [inflight EXCEPT ![1].symbol_idx = @ + 1]
                         ELSE [inflight EXCEPT ![1].pc = "replay"]
    /\ day_idx' = 1
    /\ events' = Append(events,
                        Event("fetch", stock_symbols[inflight[1].symbol_idx], 0, "none"))
    /\ UNCHANGED <<main_idle, zones, zone_state, spy_data, stocks_table, report>>

\* One pass of the loop over unique_dates for the symbol being replayed; after
\* the pass for the last date the loop over stock_symbols moves on.
StepInstrument ==
    /\ inflight[1].pc = "replay"
    /\ LET symbol == stock_symbols[inflight[1].symbol_idx]
           zone_color == find_zone_for_date(zones[1], day_idx)
           ws == process_stock_data_in_zone(stocks_table[symbol], day_idx, zone_color,
                                            IsToday(day_idx, Len(bars)),
                                            DailyData(bars, day_idx))
       IN  /\ stocks_table' = [stocks_table EXCEPT
                                  ![symbol] = ExecuteAll(stocks_table[symbol], ws)]
           /\ events' = Append(events, Event("step", symbol, day_idx, zone_color))
    /\ day_idx' = day_idx + 1
    /\ inflight' = IF day_idx = Len(bars)
                   THEN <<MainLocals("fetch", <<>>, inflight[1].symbol_idx + 1)>>
                   ELSE inflight
    /\ UNCHANGED <<main_idle, bars, zones, zone_state, spy_data, report>>

\* fetch_buy_sell_signals over the rows of all symbols, and the run is over.
ReportSignals ==
    /\ inflight[1].pc = "fetch"
    /\ inflight[1].symbol_idx > Len(stock_symbols)
    /\ report' = Some([buy_signals |->
                          {s \in DOMAIN stocks_table : stocks_table[s].trade_signal = "BUY"},
                       sell_signals |->
                          {s \in DOMAIN stocks_table : stocks_table[s].trade_signal = "SELL"}])
    /\ inflight' = <<MainLocals("done", <<>>, inflight[1].symbol_idx)>>
    /\ events' = Append(events, Event("report", "SPY", 0, "none"))
    /\ UNCHANGED <<main_idle, bars, day_idx, zones, zone_state, spy_data, stocks_table>>

InitMain ==
    /\ bars = <<>> /\ day_idx = 1 /\ stocks = NoRow /\ before = NoRow
    /\ writes = <<>> /\ confirmed = "NULL" /\ forced = FALSE
    /\ run = 1 /\ at_start = NoRow /\ fetched = FALSE /\ calls = <<>>
    /\ invocations = <<>> /\ report = None /\ zones = NoZones
    /\ stocks2 = NoRow /\ writes2 = <<>>
    /\ zone_state \in EarlierZones
    /\ spy_data = <<>> /\ call = NoCall /\ ret = None
    /\ inflight = <<MainLocals("spy", <<>>, 1)>>
    /\ stocks_table = [s \in {stock_symbols[i] : i \in 1..Len(stock_symbols)} |-> NoRow]
    /\ events = <<>>

NextMain ==
    \/ FetchSpy \/ FetchSpyNoData \/ DeleteZones \/ InsertZone \/ ZoneWriteFailing
    \/ LoadZones \/ FetchInstrument \/ StepInstrument \/ ReportSignals
SpecMain == InitMain /\ [][NextMain]_vars

\* Narrow closes, one replay under a zone history and a second one beside it
\* under one of the reference histories.
ReferenceZones ==
    {<<>>, <<ZoneRecord("green", 1)>>, <<ZoneRecord("red", 1)>>}
InitZones ==
    /\ InitWith(SeqsUpTo(NarrowBars, ZoneBars))
    /\ zones \in {<<z, r>> : z \in ZoneLists(ZoneBars, MaxZones), r \in ReferenceZones}
    /\ zone_state = zones[1]
NextZones == StepZones
SpecZones == InitZones /\ [][NextZones]_vars

\* ------------------------------------------------------------- claims
\* What the claims say about the last step: the date it processed, the
\* window it was given, and the anchored comparisons written out on bars.
Stepped == day_idx > 1
ProcessedDate == day_idx - 1
Window == SubSeq(bars, 1, ProcessedDate)
WasToday == ProcessedDate = Len(bars)
SplitDay == bars[ProcessedDate].split_factor # NoSplit
NoSplits == \A i \in 1..Len(bars) : bars[i].split_factor = NoSplit

\* The anchor the last step worked from: the persisted date, or the first
\* date of the window when the row had none.
AnchorAtStart ==
    IF HasState(before) THEN before.all_time_high_date[1] ELSE 1

Above(a, d) ==
    /\ CumulativeVolume(bars, a, d) > 0
    /\ 3 * bars[d].close * CumulativeVolume(bars, a, d)
           > CumulativePriceVolume3(bars, a, d)

Below(a, d) ==
    /\ CumulativeVolume(bars, a, d) > 0
    /\ 3 * bars[d].close * CumulativeVolume(bars, a, d)
           < CumulativePriceVolume3(bars, a, d)

AtOrBelow(a, d) == CumulativeVolume(bars, a, d) > 0 /\ ~Above(a, d)
AtOrAbove(a, d) == CumulativeVolume(bars, a, d) > 0 /\ ~Below(a, d)

\* A three-bar crossover of the series anchored at a completes on date d.
BuyCrossoverAt(a, d) ==
    d - 2 >= a /\ Above(a, d) /\ AtOrBelow(a, d - 1) /\ AtOrBelow(a, d - 2)

SellCrossoverAt(a, d) ==
    d - 2 >= a /\ Below(a, d) /\ AtOrAbove(a, d - 1) /\ AtOrAbove(a, d - 2)

SplitResult ==
    /\ stocks.last_trade_signal = "BUY"
    /\ stocks.all_time_high = Some(bars[ProcessedDate].close)
    /\ stocks.all_time_high_date = Some(ProcessedDate)

\* C1, as stated: after the step for any date whose bar carries a split factor
\* other than 1.0, the row holds last_trade_signal = BUY, all_time_high = that
\* date's close and all_time_high_date = that date, at every position of the
\* history.
C1_SplitOverrideAnyDate == (Stepped /\ SplitDay) => SplitResult

\* C1, amended: the same for every split date whose window holds at least
\* MIN_DATA_POINTS bars, whatever the row held before and also on the date
\* flagged today.
C1_SplitOverride ==
    (Stepped /\ SplitDay /\ ProcessedDate >= MIN_DATA_POINTS) => SplitResult

\* C1 witness: a split on the date flagged today, met in the state AWAITING_BUY
\* that an earlier SELL confirmation left.
C1_Witness ==
    /\ Stepped /\ SplitDay /\ WasToday
    /\ before.last_trade_signal = "SELL"
    /\ SplitResult

\* The signal the step now taking place confirms by a detector ("NULL": none).
ConfirmedNow ==
    Confirmation(writes', SubSeq(bars, 1, day_idx), day_idx)

SignalWrites(ws) == {i \in 1..Len(ws) : ws[i].op = "update_last_trade_signal"}

\* C2, as stated: the detector-confirmed writes of last_trade_signal of one
\* replay alternate strictly: no confirmation repeats the kind of the
\* confirmation before it.
C2_StrictAlternation ==
    [][(day_idx' = day_idx + 1 /\ ConfirmedNow # "NULL")
          => ConfirmedNow # confirmed]_vars

\* C2, amended: a BUY is confirmed only on a row whose last_trade_signal is
\* not BUY, a SELL only on a row where it is BUY, a step writes the signal at
\* most once, and a confirmation repeats the kind of the one before it only
\* when a split override was applied between the two.
C2_Alternation ==
    [][(day_idx' = day_idx + 1 /\ ConfirmedNow # "NULL")
          => /\ ConfirmedNow = "BUY" => stocks.last_trade_signal # "BUY"
             /\ ConfirmedNow = "SELL" => stocks.last_trade_signal = "BUY"
             /\ Cardinality(SignalWrites(writes')) = 1
             /\ ConfirmedNow = confirmed => forced]_vars

\* C2 witness: a SELL confirmation in a history without splits, which only a
\* detector-confirmed BUY can have preceded.
C2_Witness ==
    /\ Stepped /\ NoSplits
    /\ Confirmation(writes, Window, ProcessedDate) = "SELL"
    /\ confirmed = "SELL"
    /\ before.last_trade_signal = "BUY"

\* C2: two SELL confirmations in a row, a split override between them.
C2_RepeatedSell ==
    /\ Stepped
    /\ Confirmation(writes, Window, ProcessedDate) = "SELL"
    /\ before.last_trade_signal = "BUY"
    /\ \E i \in 1..(ProcessedDate - 1) : bars[i].split_factor # NoSplit

\* C3, as stated: a step lowers the persisted all_time_high only on a date
\* whose bar carries a split.
C3_HighNeverDecreases ==
    (Stepped /\ HasState(before) /\ HasState(stocks) /\ ~SplitDay)
        => stocks.all_time_high[1] >= before.all_time_high[1]

\* C3, amended: a step lowers the persisted all_time_high only on a split date
\* or when it confirms a three-bar BUY, which re-anchors the high to the close
\* of the BUY date.
C3_HighDecreasesOnlyOnReanchor ==
    (Stepped /\ HasState(before) /\ HasState(stocks) /\ ~SplitDay
        /\ ~(~WasToday /\ Confirmation(writes, Window, ProcessedDate) = "BUY"))
        => stocks.all_time_high[1] >= before.all_time_high[1]

\* C3 witness: the scan of a step in AWAITING_SELL raised the high.
C3_Witness ==
    /\ Stepped /\ ~SplitDay /\ ~WasToday
    /\ HasState(before) /\ before.last_trade_signal = "BUY"
    /\ stocks.all_time_high[1] > before.all_time_high[1]

\* C4: whenever the row holds an all-time high and its date, the high is the
\* close of the bar of that date.
C4_HighIsCloseOfItsDate ==
    HasState(stocks) =>
        /\ stocks.all_time_high_date[1] \in 1..Len(bars)
        /\ stocks.all_time_high[1] = bars[stocks.all_time_high_date[1]].close

\* C4 witness: the scan moved the anchor to a later date with a higher close.
C4_Witness ==
    /\ Stepped /\ ~SplitDay /\ ~WasToday
    /\ HasState(before) /\ before.last_trade_signal = "BUY"
    /\ stocks.all_time_high_date[1] > before.all_time_high_date[1]
    /\ stocks.all_time_high[1] = bars[stocks.all_time_high_date[1]].close
    /\ stocks.all_time_high[1] > before.all_time_high[1]

\* The scenario of C5: five bars, no split, a three-bar BUY crossover of the
\* series anchored at bar 1 completing on bar 3, and bars 4 and 5 a two-bar
\* SELL of the series anchored at bar 3.
C5_Scenario ==
    /\ Len(bars) = 5 /\ NoSplits
    /\ BuyCrossoverAt(1, 3)
    /\ AtOrAbove(3, 4) /\ Below(3, 5)

\* C5, as stated: in the scenario the step for bar 3 confirms the BUY and
\* re-anchors to bar 3, the replay ends with last_trade_signal = SELL, and
\* trade_signal = SELL is written by the step for bar 5 and by no earlier one.
C5_EndToEnd ==
    C5_Scenario =>
        /\ day_idx = 4 =>
              /\ stocks.all_time_high_date = Some(3)
              /\ stocks.last_trade_signal = "BUY"
        /\ day_idx <= 5 => stocks.trade_signal # "SELL"
        /\ day_idx = 6 =>
              /\ stocks.last_trade_signal = "SELL"
              /\ stocks.trade_signal = "SELL"

\* C5, what the code does in the scenario: the crossover of bar 3 is never
\* confirmed, the anchor stays at bar 1 and no SELL is ever written.
C5_CodeOutcome ==
    C5_Scenario =>
        /\ stocks.last_trade_signal # "SELL"
        /\ stocks.trade_signal # "SELL"
        /\ day_idx <= 4 => stocks = NoRow
        /\ day_idx > 4 => stocks.all_time_high_date = Some(1)

\* No three-bar crossover of the series anchored at a completes before d.
NoEarlierBuyCrossover(a, d) == \A e \in (a + 2)..(d - 1) : ~BuyCrossoverAt(a, e)
NoEarlierSellCrossover(a, d) == \A e \in (a + 2)..(d - 1) : ~SellCrossoverAt(a, e)

\* The last step was one for a date before today whose bar has no split.
HistoricalStep == Stepped /\ ~WasToday /\ ~SplitDay

\* C6, as stated: a step for a date before today without a split, begun in
\* AWAITING_BUY, confirms BUY whenever a three-bar BUY crossover of the series
\* anchored at all_time_high_date completes on its date.
C6_BuyWheneverCrossover ==
    (HistoricalStep /\ before.last_trade_signal # "BUY"
        /\ BuyCrossoverAt(AnchorAtStart, ProcessedDate))
        => stocks.last_trade_signal = "BUY"

\* C6, as stated, on the dates whose window holds MIN_DATA_POINTS bars: an
\* earlier crossover of the same anchored series still prevents the BUY.
C6_BuyWheneverCrossoverLongWindow ==
    (HistoricalStep /\ before.last_trade_signal # "BUY"
        /\ ProcessedDate >= MIN_DATA_POINTS
        /\ BuyCrossoverAt(AnchorAtStart, ProcessedDate))
        => stocks.last_trade_signal = "BUY"

\* C6, amended: the step confirms BUY when its window holds at least
\* MIN_DATA_POINTS bars and the crossover completing on its date is the first
\* one of the anchored series.
C6_BuyOnFirstCrossover ==
    (HistoricalStep /\ before.last_trade_signal # "BUY"
        /\ ProcessedDate >= MIN_DATA_POINTS
        /\ BuyCrossoverAt(AnchorAtStart, ProcessedDate)
        /\ NoEarlierBuyCrossover(AnchorAtStart, ProcessedDate))
        => /\ stocks.last_trade_signal = "BUY"
           /\ Confirmation(writes, Window, ProcessedDate) = "BUY"

\* C6 witness: a BUY confirmed on a row that an earlier step had initialised,
\* after a SELL.
C6_Witness ==
    /\ HistoricalStep /\ HasState(before)
    /\ before.last_trade_signal = "SELL"
    /\ BuyCrossoverAt(AnchorAtStart, ProcessedDate)
    /\ NoEarlierBuyCrossover(AnchorAtStart, ProcessedDate)
    /\ stocks.last_trade_signal = "BUY"

\* C7, as stated: a step for a date before today without a split, begun in
\* AWAITING_SELL, confirms SELL whenever a three-bar SELL crossover of the
\* series anchored at all_time_high_date completes on its date.
C7_SellWheneverCrossover ==
    (HistoricalStep /\ HasState(before) /\ before.last_trade_signal = "BUY"
        /\ SellCrossoverAt(AnchorAtStart, ProcessedDate))
        => stocks.last_trade_signal = "SELL"

\* C7, as stated, on the dates whose window holds MIN_DATA_POINTS bars.
C7_SellWheneverCrossoverLongWindow ==
    (HistoricalStep /\ HasState(before) /\ before.last_trade_signal = "BUY"
        /\ ProcessedDate >= MIN_DATA_POINTS
        /\ SellCrossoverAt(AnchorAtStart, ProcessedDate))
        => stocks.last_trade_signal = "SELL"

\* C7, amended: the step confirms SELL when its window holds at least
\* MIN_DATA_POINTS bars and the crossover completing on its date is the first
\* one of the anchored series.
C7_SellOnFirstCrossover ==
    (HistoricalStep /\ HasState(before) /\ before.last_trade_signal = "BUY"
        /\ ProcessedDate >= MIN_DATA_POINTS
        /\ SellCrossoverAt(AnchorAtStart, ProcessedDate)
        /\ NoEarlierSellCrossover(AnchorAtStart, ProcessedDate))
        => /\ stocks.last_trade_signal = "SELL"
           /\ Confirmation(writes, Window, ProcessedDate) = "SELL"

\* C7 witness: a SELL confirmed by the three-bar detector.
C7_Witness ==
    /\ HistoricalStep /\ HasState(before)
    /\ before.last_trade_signal = "BUY"
    /\ SellCrossoverAt(AnchorAtStart, ProcessedDate)
    /\ NoEarlierSellCrossover(AnchorAtStart, ProcessedDate)
    /\ stocks.last_trade_signal = "SELL"

\* C8: a step for a date before today without a split changes
\* last_trade_signal only to BUY from a non-BUY value, or to SELL from BUY,
\* and only when the first crossover of that kind in the anchored series
\* completes on the step's date; a crossover found at an earlier date changes
\* nothing.
C8_ChangeOnlyOnExactDate ==
    (HistoricalStep /\ stocks.last_trade_signal # before.last_trade_signal)
        => \/ /\ stocks.last_trade_signal = "BUY"
              /\ before.last_trade_signal # "BUY"
              /\ BuyCrossoverAt(AnchorAtStart, ProcessedDate)
              /\ NoEarlierBuyCrossover(AnchorAtStart, ProcessedDate)
           \/ /\ stocks.last_trade_signal = "SELL"
              /\ before.last_trade_signal = "BUY"
              /\ SellCrossoverAt(AnchorAtStart, ProcessedDate)
              /\ NoEarlierSellCrossover(AnchorAtStart, ProcessedDate)

\* C8 witness: a step that changed the signal from BUY to SELL on the date
\* the first SELL crossover of the anchored series completes.
C8_Witness ==
    /\ HistoricalStep /\ HasState(before)
    /\ before.last_trade_signal = "BUY"
    /\ stocks.last_trade_signal = "SELL"
    /\ SellCrossoverAt(AnchorAtStart, ProcessedDate)
    /\ NoEarlierSellCrossover(AnchorAtStart, ProcessedDate)

\* C8: a step that left the signal alone although a BUY crossover completes
\* on its date, the detector returning the date of an earlier crossover.
C8_EarlierResultIgnored ==
    /\ HistoricalStep /\ ProcessedDate >= MIN_DATA_POINTS
    /\ before.last_trade_signal # "BUY"
    /\ BuyCrossoverAt(AnchorAtStart, ProcessedDate)
    /\ ~NoEarlierBuyCrossover(AnchorAtStart, ProcessedDate)
    /\ stocks.last_trade_signal = before.last_trade_signal

\* C9, as stated: a step that confirms a BUY on a date before today leaves
\* all_time_high at that date's close and all_time_high_date at that date,
\* whatever the close.
C9_BuyReanchors ==
    (HistoricalStep /\ Confirmation(writes, Window, ProcessedDate) = "BUY")
        => /\ stocks.all_time_high = Some(bars[ProcessedDate].close)
           /\ stocks.all_time_high_date = Some(ProcessedDate)

\* C9, what holds of the code: the re-anchor takes place for every close
\* other than zero.
C9_BuyReanchorsUnlessZero ==
    (HistoricalStep /\ Confirmation(writes, Window, ProcessedDate) = "BUY"
        /\ bars[ProcessedDate].close # 0)
        => /\ stocks.all_time_high = Some(bars[ProcessedDate].close)
           /\ stocks.all_time_high_date = Some(ProcessedDate)

\* The dates of the window after the anchor the step read, and the largest
\* close among them.
DatesAfterAnchor == (before.all_time_high_date[1] + 1)..ProcessedDate

MaxCloseAfterAnchor ==
    CHOOSE m \in {bars[i].close : i \in DatesAfterAnchor} :
        \A i \in DatesAfterAnchor : bars[i].close <= m

ScanResult ==
    IF DatesAfterAnchor # {} /\ MaxCloseAfterAnchor > before.all_time_high[1]
    THEN /\ stocks.all_time_high = Some(MaxCloseAfterAnchor)
         /\ stocks.all_time_high_date[1] \in DatesAfterAnchor
         /\ bars[stocks.all_time_high_date[1]].close = MaxCloseAfterAnchor
    ELSE /\ stocks.all_time_high = before.all_time_high
         /\ stocks.all_time_high_date = before.all_time_high_date

\* C10, as stated: a step for a date before today without a split, begun in
\* AWAITING_SELL, moves the high to the largest close after the anchor when
\* that close exceeds it, and otherwise leaves high and date alone.
C10_ScanAnyDate ==
    (HistoricalStep /\ HasState(before) /\ before.last_trade_signal = "BUY")
        => ScanResult

\* C10, amended: the same for the steps whose window holds at least
\* MIN_DATA_POINTS bars, whether or not the step confirmed a SELL.
C10_Scan ==
    (HistoricalStep /\ HasState(before) /\ before.last_trade_signal = "BUY"
        /\ ProcessedDate >= MIN_DATA_POINTS)
        => ScanResult

\* C10 witness: a step that confirmed a SELL and moved the high as well.
C10_Witness ==
    /\ HistoricalStep /\ HasState(before) /\ before.last_trade_signal = "BUY"
    /\ ProcessedDate >= MIN_DATA_POINTS
    /\ stocks.last_trade_signal = "SELL"
    /\ stocks.all_time_high_date # before.all_time_high_date
    /\ ScanResult

\* A two-bar pattern of the series anchored at a on the rows d-1 and d.
TwoBarBuyAt(a, d) == d - 1 >= a /\ Above(a, d) /\ AtOrBelow(a, d - 1)
TwoBarSellAt(a, d) == d - 1 >= a /\ Below(a, d) /\ AtOrAbove(a, d - 1)

\* The last step was the one for the date flagged today, on a bar without a
\* split and a window of at least MIN_DATA_POINTS bars.
TodayStep ==
    Stepped /\ WasToday /\ ~SplitDay /\ ProcessedDate >= MIN_DATA_POINTS

\* C11: on the date flagged today, in AWAITING_SELL a two-bar SELL match sets
\* trade_signal and last_trade_signal to SELL and no match sets trade_signal
\* to null and leaves last_trade_signal alone; in AWAITING_BUY the same with
\* the two-bar BUY pattern and the value BUY.
C11_TodayTwoBar ==
    TodayStep =>
        IF before.last_trade_signal = "BUY"
        THEN IF TwoBarSellAt(AnchorAtStart, ProcessedDate)
             THEN stocks.trade_signal = "SELL" /\ stocks.last_trade_signal = "SELL"
             ELSE /\ stocks.trade_signal = "NULL"
                  /\ stocks.last_trade_signal = before.last_trade_signal
        ELSE IF TwoBarBuyAt(AnchorAtStart, ProcessedDate)
             THEN stocks.trade_signal = "BUY" /\ stocks.last_trade_signal = "BUY"
             ELSE /\ stocks.trade_signal = "NULL"
                  /\ stocks.last_trade_signal = before.last_trade_signal

\* C11 witness: today's step of a second run, begun in AWAITING_SELL with the
\* transient signal of the first run still in the row, matched the two-bar
\* SELL.
C11_Witness ==
    /\ TodayStep /\ run > 1
    /\ before.last_trade_signal = "BUY" /\ before.trade_signal = "BUY"
    /\ TwoBarSellAt(AnchorAtStart, ProcessedDate)
    /\ stocks.trade_signal = "SELL" /\ stocks.last_trade_signal = "SELL"

\* C11: today's step without a match cleared a transient signal that an
\* earlier run had left.
C11_ClearedWitness ==
    /\ TodayStep /\ run > 1
    /\ before.trade_signal = "BUY" /\ before.last_trade_signal = "BUY"
    /\ ~TwoBarSellAt(AnchorAtStart, ProcessedDate)
    /\ stocks.trade_signal = "NULL" /\ stocks.last_trade_signal = "BUY"

\* C12, as stated: the step for the date flagged today changes
\* last_trade_signal only when the two-bar pattern of the opposite kind
\* matches on the last two anchored rows.
C12_TodayChangeOnlyTwoBar ==
    (Stepped /\ WasToday
        /\ stocks.last_trade_signal # before.last_trade_signal)
        => \/ /\ before.last_trade_signal = "BUY"
              /\ stocks.last_trade_signal = "SELL"
              /\ TwoBarSellAt(AnchorAtStart, ProcessedDate)
           \/ /\ before.last_trade_signal # "BUY"
              /\ stocks.last_trade_signal = "BUY"
              /\ TwoBarBuyAt(AnchorAtStart, ProcessedDate)

\* C12, amended: today's step changes last_trade_signal only by the two-bar
\* pattern of the opposite kind or, when today's bar carries a split, by the
\* split override, which forces BUY.
C12_TodayChangeTwoBarOrSplit ==
    (Stepped /\ WasToday
        /\ stocks.last_trade_signal # before.last_trade_signal)
        => \/ /\ ~SplitDay
              /\ before.last_trade_signal = "BUY"
              /\ stocks.last_trade_signal = "SELL"
              /\ TwoBarSellAt(AnchorAtStart, ProcessedDate)
           \/ /\ ~SplitDay
              /\ before.last_trade_signal # "BUY"
              /\ stocks.last_trade_signal = "BUY"
              /\ TwoBarBuyAt(AnchorAtStart, ProcessedDate)
           \/ /\ SplitDay /\ ProcessedDate >= MIN_DATA_POINTS
              /\ stocks.last_trade_signal = "BUY"

\* C12 witness: today's step changed last_trade_signal from SELL to BUY by the
\* two-bar pattern on a date where no three-bar BUY crossover completes.
C12_Witness ==
    /\ TodayStep /\ before.last_trade_signal = "SELL"
    /\ stocks.last_trade_signal = "BUY"
    /\ TwoBarBuyAt(AnchorAtStart, ProcessedDate)
    /\ ~BuyCrossoverAt(AnchorAtStart, ProcessedDate)

\* The run has ended: the step for the last date has been taken.
RunEnded == Stepped /\ day_idx > Len(bars)

\* What today's step of the run found: the kind of the two-bar pattern that
\* matched in the state the step began in, "NULL" when none matched or the
\* step did not get as far as the detectors.
TodayResult ==
    IF ~TodayStep THEN "NULL"
    ELSE IF before.last_trade_signal = "BUY"
         THEN IF TwoBarSellAt(AnchorAtStart, ProcessedDate) THEN "SELL" ELSE "NULL"
         ELSE IF TwoBarBuyAt(AnchorAtStart, ProcessedDate) THEN "BUY" ELSE "NULL"

\* C13, as stated: when a run has replayed the instrument, the persisted
\* trade_signal is the result of that run's step for today, so a value
\* written by an earlier run is no longer in place.
C13_TransientRecomputed == RunEnded => stocks.trade_signal = TodayResult

\* C13, what the code does: trade_signal is today's result unless today's step
\* returned before the detectors (split override, short window), and then it
\* is whatever the row held before the step.
C13_StaleWhenTodayReturnsEarly ==
    RunEnded =>
        IF TodayStep THEN stocks.trade_signal = TodayResult
        ELSE stocks.trade_signal = before.trade_signal

\* The run in progress began on a row holding an all-time high, and the last
\* step was the one for a date earlier than the date of that high.
BeforeStartAnchor ==
    /\ Stepped /\ fetched /\ HasState(at_start)
    /\ ProcessedDate < at_start.all_time_high_date[1]

\* C15, as stated: in a run that starts from a row whose all_time_high_date
\* is A, the step for a date earlier than A writes nothing.
C15_NoWriteBeforeAnchor == BeforeStartAnchor => writes = <<>>

\* C15, amended: the step for a date earlier than A writes nothing as long as
\* no date up to it, from the date of the MIN_DATA_POINTS-th bar on, carries
\* a split.
C15_NoWriteBeforeAnchorUnlessSplit ==
    (BeforeStartAnchor
        /\ \A i \in MIN_DATA_POINTS..ProcessedDate : bars[i].split_factor = NoSplit)
        => writes = <<>> /\ stocks = at_start

\* C15 witness: a step of a second run for a date before the anchor, with a
\* window long enough to be processed, in AWAITING_SELL.
C15_Witness ==
    /\ BeforeStartAnchor /\ run > 1
    /\ ProcessedDate >= MIN_DATA_POINTS
    /\ \A i \in MIN_DATA_POINTS..ProcessedDate : bars[i].split_factor = NoSplit
    /\ at_start.last_trade_signal = "BUY"
    /\ writes = <<>> /\ stocks = at_start

\* The calls of the last step that failed.
FailedCalls == {k \in 1..Len(calls) : ~calls[k].ok}

\* The last step ended at a failed SELECT or at a failed initial write.
StepAborted ==
    /\ calls # <<>> /\ ~calls[Len(calls)].ok
    /\ \/ calls[Len(calls)].call = Select
       \/ Len(calls) = 2 /\ calls[1].call = Select /\ ~HasState(before)

\* The run has ended and the instrument was passed over or its step for
\* the last date was skipped or failed: no bars fetched, a window shorter
\* than MIN_DATA_POINTS, an empty anchored series, an error that ended the
\* step.
SkippedOrFailed ==
    /\ report # None
    /\ \/ ~fetched
       \/ /\ RunEnded
          /\ \/ ProcessedDate < MIN_DATA_POINTS
             \/ HasState(before) /\ before.all_time_high_date[1] > ProcessedDate
             \/ StepAborted

Reported == report[1].buy_signals \cup report[1].sell_signals

\* C14, as stated: an instrument skipped or failed in a run gets no signal
\* written for that date and is in neither set of the report of that run.
C14_FailedAbsentFromReport ==
    SkippedOrFailed =>
        /\ \A k \in 1..Len(writes) : writes[k].op = "update_all_time_high_info"
        /\ Symbol \notin Reported

\* C14, what the code does: no signal is written, and the report shows the
\* instrument exactly when the row held a trade_signal before, left by an
\* earlier run.
C14_FailedReportedFromOldSignal ==
    SkippedOrFailed =>
        /\ writes = <<>>
        /\ stocks = before
        /\ Symbol \in Reported <=> before.trade_signal # "NULL"

\* The last step read the row, found no all-time high in it, and had a window
\* of at least MIN_DATA_POINTS bars whose last bar has no split.
InitialisingStep ==
    /\ Stepped /\ ~SplitDay /\ ProcessedDate >= MIN_DATA_POINTS
    /\ ~HasState(before)
    /\ calls # <<>> /\ calls[1] = Call(Select, TRUE)

Issued(w) == \E k \in 1..Len(calls) : calls[k].call = w

\* C16: a step that finds no all-time high in the row first writes the close
\* and the date of the first bar of its window; when that write fails it
\* issues no further call and the row stays as it was; when it succeeds the
\* detection of the same step works on the series anchored at that first
\* date (the two-bar BUY pattern on today, the first three-bar BUY crossover
\* on an earlier date).
C16_InitialisesFromFirstBar ==
    InitialisingStep =>
        /\ Len(calls) >= 2
        /\ calls[2].call = update_all_time_high_info(Window[1].close, 1)
        /\ ~calls[2].ok => Len(calls) = 2 /\ writes = <<>> /\ stocks = before
        /\ calls[2].ok =>
              /\ writes[1] = update_all_time_high_info(Window[1].close, 1)
              /\ IF WasToday
                 THEN Issued(update_trade_signal("BUY"))
                          <=> TwoBarBuyAt(1, ProcessedDate)
                 ELSE Issued(update_last_trade_signal("BUY"))
                          <=> /\ BuyCrossoverAt(1, ProcessedDate)
                              /\ NoEarlierBuyCrossover(1, ProcessedDate)

\* C16 witness: the initial write went through and the same step confirmed a
\* BUY on the series anchored at the first date.
C16_Witness ==
    /\ InitialisingStep /\ ~WasToday
    /\ calls[2] = Call(update_all_time_high_info(Window[1].close, 1), TRUE)
    /\ BuyCrossoverAt(1, ProcessedDate)
    /\ stocks.last_trade_signal = "BUY"

\* C16: the initial write failed on a date where the anchored series has a
\* BUY crossover, and the step ended there.
C16_FailedWitness ==
    /\ InitialisingStep /\ ~WasToday
    /\ ~calls[2].ok /\ Len(calls) = 2
    /\ BuyCrossoverAt(1, ProcessedDate)
    /\ stocks = NoRow

\* The last step had a window shorter than MIN_DATA_POINTS.
ShortWindowStep == Stepped /\ Len(Window) < MIN_DATA_POINTS

Applied(op) == {k \in 1..Len(calls) : calls[k].ok /\ calls[k].call.op = op}

LastApplied(op) == CHOOSE k \in Applied(op) : \A j \in Applied(op) : j <= k

C18_ReadFailedWitness ==
    /\ Stepped /\ calls = <<Call(Select, FALSE)>>
    /\ HasState(before) /\ before.last_trade_signal # "NULL"
    /\ stocks = before

\* C19: the calls of a run so far are one per date, in ascending order of
\* date from the first date on, each with the window of all bars up to and
\* including its date, and flagged today exactly when the date is the last
\* one; at the end of the run there is one call per date and exactly one of
\* them is flagged.
C19_OncePerDateExpandingWindow ==
    /\ Len(invocations) = day_idx - 1
    /\ \A i \in 1..Len(invocations) :
          /\ invocations[i].current_date = i
          /\ invocations[i].daily_data = SubSeq(bars, 1, i)
          /\ invocations[i].is_today <=> i = Len(bars)
    /\ (bars # <<>> /\ RunOver) =>
          /\ Len(invocations) = Len(bars)
          /\ Cardinality({i \in 1..Len(invocations) : invocations[i].is_today}) = 1

\* C19 witness: a replay over more than MIN_DATA_POINTS - 1 dates has ended,
\* its last call is the flagged one and had the whole history as its window.
C19_Witness ==
    /\ RunOver /\ Len(bars) >= MIN_DATA_POINTS
    /\ Len(invocations) = Len(bars)
    /\ invocations[Len(bars)].is_today
    /\ invocations[Len(bars)].daily_data = bars
    /\ ~invocations[Len(bars) - 1].is_today

\* The market_zone passed for date d by the replay under zone history k.
ZoneOn(k, d) == find_zone_for_date(zones[k], d)

C20_ZoneChangedWitness ==
    /\ ProcessedDate >= MIN_DATA_POINTS
    /\ ZoneOn(1, ProcessedDate) # ZoneOn(1, ProcessedDate - 1)
    /\ ZoneOn(1, ProcessedDate) # ZoneOn(2, ProcessedDate)
    /\ writes # <<>> /\ writes2 = writes

\* ------------------------------------------------- claims on the detectors
\* The call under way returned from fn.
ReturnedFrom(fn) == ret # None /\ ret[1].fn = fn

\* The rows of the series given that are dated at or before the target date:
\* the series is in date order, so they are its first rows.
Considered ==
    SubSeq(call.df, 1,
           Cardinality({k \in 1..Len(call.df) : call.df[k].date <= call.current_date}))

\* The vwap of a row is a number, and the close compared to it.
VwapDefined(r) == r.cumulative_volume # 0
RowAbove(r) ==
    VwapDefined(r) /\ 3 * r.close * r.cumulative_volume > r.cumulative_price_volume3
RowBelow(r) ==
    VwapDefined(r) /\ 3 * r.close * r.cumulative_volume < r.cumulative_price_volume3
RowAtOrBelow(r) == VwapDefined(r) /\ ~RowAbove(r)
RowAtOrAbove(r) == VwapDefined(r) /\ ~RowBelow(r)

\* The positions (from 1) of the considered rows that complete a three-bar
\* pattern.
BuyMatches ==
    {i \in 3..Len(Considered) :
        /\ RowAbove(Considered[i])
        /\ RowAtOrBelow(Considered[i - 1])
        /\ RowAtOrBelow(Considered[i - 2])}

SellMatches ==
    {i \in 3..Len(Considered) :
        /\ RowBelow(Considered[i])
        /\ RowAtOrAbove(Considered[i - 1])
        /\ RowAtOrAbove(Considered[i - 2])}

First(S) == CHOOSE i \in S : \A j \in S : i <= j

\* C21: find_b_signal returns the date of the first considered row that
\* completes the BUY pattern with the two rows before it, and null when there
\* is none (so also with fewer than three considered rows); find_s_signal the
\* same for the SELL pattern. Rows after the target date play no part.
C21_FirstMatchUpToTarget ==
    /\ ReturnedFrom("find_b_signal") =>
          ret[1].value = IF BuyMatches = {} THEN None
                         ELSE Some(Considered[First(BuyMatches)].date)
    /\ ReturnedFrom("find_s_signal") =>
          ret[1].value = IF SellMatches = {} THEN None
                         ELSE Some(Considered[First(SellMatches)].date)

\* C21 witness: find_b_signal returned the first of two matches, both at or
\* before the target date.
C21_Witness ==
    /\ ReturnedFrom("find_b_signal")
    /\ Cardinality(BuyMatches) >= 2
    /\ ret[1].value = Some(Considered[First(BuyMatches)].date)

\* C21: find_s_signal returned null although a row after the target date
\* completes a SELL pattern.
C21_LaterRowsWitness ==
    /\ ReturnedFrom("find_s_signal")
    /\ ret[1].value = None
    /\ Len(Considered) >= 3
    /\ \E i \in (Len(Considered) + 1)..Len(call.df) :
          /\ RowBelow(call.df[i])
          /\ RowAtOrAbove(call.df[i - 1])
          /\ RowAtOrAbove(call.df[i - 2])

\* The last row of the series given and the row before it.
LastRow == call.df[Len(call.df)]
RowBeforeLast == call.df[Len(call.df) - 1]

\* C22: find_two_bar_b_signal returns the date of the last row given exactly
\* when that row closes above its vwap and the row before it at or below its
\* vwap, find_two_bar_s_signal exactly when the last row closes below and the
\* row before it at or above; both return null when given fewer than two
\* rows. The result is a function of the final two rows.
C22_FinalTwoRowsDecide ==
    /\ ReturnedFrom("find_two_bar_b_signal") =>
          ret[1].value =
              IF Len(call.df) < 2 THEN None
              ELSE IF RowAbove(LastRow) /\ RowAtOrBelow(RowBeforeLast)
                   THEN Some(LastRow.date) ELSE None
    /\ ReturnedFrom("find_two_bar_s_signal") =>
          ret[1].value =
              IF Len(call.df) < 2 THEN None
              ELSE IF RowBelow(LastRow) /\ RowAtOrAbove(RowBeforeLast)
                   THEN Some(LastRow.date) ELSE None

\* C22 witness: find_two_bar_s_signal matched on the final two rows of a
\* series whose earlier rows close below their vwap.
C22_Witness ==
    /\ ReturnedFrom("find_two_bar_s_signal")
    /\ Len(call.df) >= MIN_DATA_POINTS
    /\ RowBelow(call.df[1]) \/ RowBelow(call.df[2])
    /\ ret[1].value = Some(LastRow.date)

\* C22: find_two_bar_b_signal returned null for a series of a single row.
C22_OneRowWitness ==
    /\ ReturnedFrom("find_two_bar_b_signal")
    /\ Len(call.df) = 1
    /\ ret[1].value = None

\* ------------------------------------- claims on calculate_anchored_vwap
VwapRows == ret[1].value.rows
OtherVwapRows == ret[1].value.other_rows

\* The dates of the bars of the series given that are at or after the anchor.
DatesFromAnchor == {i \in 1..Len(call.data) : i >= call.anchor_date}

\* C23: the result has one row per bar dated at or after the anchor, in date
\* order, and no other row; it is empty when there is no such bar; and it is
\* the same, row by row, for a series with other bars before the anchor.
C23_RowsFromAnchorOnly ==
    ReturnedFrom("calculate_anchored_vwap") =>
        /\ Len(VwapRows) = Cardinality(DatesFromAnchor)
        /\ \A k \in 1..Len(VwapRows) : VwapRows[k].date \in DatesFromAnchor
        /\ \A k \in 1..(Len(VwapRows) - 1) : VwapRows[k].date < VwapRows[k + 1].date
        /\ DatesFromAnchor = {} => VwapRows = <<>>
        /\ OtherVwapRows = VwapRows

\* C23 witness: the anchor is neither the first nor the last date, the bars
\* before it differ between the two series in price and volume, and the rows
\* returned are the same.
C23_Witness ==
    /\ ReturnedFrom("calculate_anchored_vwap")
    /\ call.anchor_date > 1 /\ call.anchor_date < Len(call.data)
    /\ PriceVolume3(call.data[1]) # PriceVolume3(call.other[1])
    /\ call.data[1].volume # call.other[1].volume
    /\ Len(VwapRows) = Len(call.data) - call.anchor_date + 1
    /\ OtherVwapRows = VwapRows

\* C23: an anchor after the last bar gave an empty result.
C23_EmptyWitness ==
    /\ ReturnedFrom("calculate_anchored_vwap")
    /\ call.data # <<>> /\ call.anchor_date > Len(call.data)
    /\ VwapRows = <<>>

\* 3 * typical_price * volume, and the volume, summed over the bars of the
\* series given from the anchor to date i.
RECURSIVE SumPriceVolume3(_)
SumPriceVolume3(i) ==
    IF i < call.anchor_date THEN 0
    ELSE SumPriceVolume3(i - 1)
         + (call.data[i].high + call.data[i].low + call.data[i].close)
           * call.data[i].volume

RECURSIVE SumVolume(_)
SumVolume(i) ==
    IF i < call.anchor_date THEN 0 ELSE SumVolume(i - 1) + call.data[i].volume

\* The vwap of row r is the number num3 / (3 * den).
VwapEquals(r, num3, den) ==
    /\ VwapDefined(r) /\ den # 0
    /\ r.cumulative_price_volume3 * den = num3 * r.cumulative_volume

\* C24, as stated: the vwap of every row returned is the sum of typical price
\* times volume divided by the sum of volume, both from the anchor row to
\* that row, and the vwap of the anchor row is that bar's typical price.
C24_VwapIsQuotientOfSums ==
    (ReturnedFrom("calculate_anchored_vwap") /\ VwapRows # <<>>) =>
        /\ \A k \in 1..Len(VwapRows) :
              VwapEquals(VwapRows[k], SumPriceVolume3(VwapRows[k].date),
                         SumVolume(VwapRows[k].date))
        /\ LET bar == call.data[call.anchor_date]
           IN  VwapEquals(VwapRows[1], bar.high + bar.low + bar.close, 1)

\* C24, what the code does: the same on the rows with a non-zero cumulative
\* volume; the rows with a zero cumulative volume are returned with a vwap
\* that is not a number.
C24_QuotientWhereVolume ==
    (ReturnedFrom("calculate_anchored_vwap") /\ VwapRows # <<>>) =>
        /\ \A k \in 1..Len(VwapRows) :
              IF SumVolume(VwapRows[k].date) # 0
              THEN VwapEquals(VwapRows[k], SumPriceVolume3(VwapRows[k].date),
                              SumVolume(VwapRows[k].date))
              ELSE ~VwapDefined(VwapRows[k])
        /\ LET bar == call.data[call.anchor_date]
           IN  IF bar.volume # 0
               THEN VwapEquals(VwapRows[1], bar.high + bar.low + bar.close, 1)
               ELSE ~VwapDefined(VwapRows[1])

\* C25, as stated: no row is returned for a bar at which the cumulative
\* volume since the anchor is zero.
C25_ZeroVolumeRowExcluded ==
    ReturnedFrom("calculate_anchored_vwap") =>
        \A k \in 1..Len(VwapRows) : SumVolume(VwapRows[k].date) # 0

\* C25, what the code does: such a bar has a row like every other bar at or
\* after the anchor, and the vwap of the row is not a number.
C25_ZeroVolumeRowKept ==
    ReturnedFrom("calculate_anchored_vwap") =>
        /\ \A i \in DatesFromAnchor : \E k \in 1..Len(VwapRows) : VwapRows[k].date = i
        /\ \A k \in 1..Len(VwapRows) :
              SumVolume(VwapRows[k].date) = 0 <=> ~VwapDefined(VwapRows[k])

\* The position in the series given of the row dated d.
PositionOf(d) == CHOOSE k \in 1..Len(call.df) : call.df[k].date = d

\* C25, what the code does in the detectors: the rows of a match (the row of
\* the date returned and the one or two rows before it) all have a vwap that
\* is a number; a row without one stays in the series and no match is found
\* on a window that contains it.
C25_NoMatchOnUndefinedVwap ==
    (ret # None /\ call.fn = "detector" /\ ret[1].value # None) =>
        LET k == PositionOf(ret[1].value[1])
            n == IF ret[1].fn \in {"find_b_signal", "find_s_signal"} THEN 2 ELSE 1
        IN  \A j \in (k - n)..k : VwapDefined(call.df[j])

\* C25: a series that begins with a row without a usable vwap was searched
\* and a match was found on later rows.
C25_UndefinedRowInSeries ==
    /\ ReturnedFrom("find_b_signal") /\ call.df # <<>>
    /\ ~VwapDefined(call.df[1])
    /\ ret[1].value # None

\* ------------------------------------------------- claims on the zones
\* The positions of the records given that are dated at or before the date
\* asked for.
InEffect ==
    {i \in 1..Len(call.zones_list) :
        call.zones_list[i].state_change_date <= call.target_date}

Latest(S) == CHOOSE i \in S : \A j \in S : j <= i

\* C26: on a sequence in ascending order of date, find_zone_for_date returns
\* the color of the latest record dated at or before the date asked for, and
\* red when there is no such record (the sequence is empty or all its records
\* are dated later); with one record dated D0 that is red before D0 and the
\* record's color from D0 on.
C26_LatestRecordOrRed ==
    ReturnedFrom("find_zone_for_date") =>
        /\ ret[1].value = IF InEffect = {} THEN "red"
                          ELSE call.zones_list[Latest(InEffect)].state_color
        /\ Len(call.zones_list) = 1 =>
              ret[1].value =
                  IF call.target_date < call.zones_list[1].state_change_date
                  THEN "red" ELSE call.zones_list[1].state_color

\* C26 witness: three records, the date asked for lies between the second
\* and the third, and the color of the second, green after a red first
\* record, is returned.
C26_Witness ==
    /\ ReturnedFrom("find_zone_for_date")
    /\ Len(call.zones_list) = 3
    /\ InEffect = {1, 2}
    /\ call.zones_list[1].state_color = "red"
    /\ call.zones_list[2].state_color = "green"
    /\ ret[1].value = "green"

\* C26: a single green record and a date before it: red.
C26_BeforeFirstWitness ==
    /\ ReturnedFrom("find_zone_for_date")
    /\ Len(call.zones_list) = 1
    /\ call.zones_list[1].state_color = "green"
    /\ call.target_date < call.zones_list[1].state_change_date
    /\ ret[1].value = "red"

\* ---------------------------------------- claims on the zone classifier
\* The zone phase of the run ended with a classification that ran to its end.
ClassificationCompleted ==
    ReturnedFrom("iterate_spy_zones") /\ ret[1].value = "completed"

\* The dates of the reference series on which both averages are numbers.
ClassifiedDates == {t \in 1..Len(spy_data) : t >= SmaWindow}
FirstClassifiedDate == SmaWindow

\* The records of the table dated d, and those dated before d.
RecordsOn(d) == {k \in 1..Len(zone_state) : zone_state[k].state_change_date = d}
RecordsBefore(d) == {k \in 1..Len(zone_state) : zone_state[k].state_change_date < d}

\* The most recently emitted record before date d.
LastRecordBefore(d) ==
    CHOOSE k \in RecordsBefore(d) :
        \A j \in RecordsBefore(d) :
            zone_state[j].state_change_date <= zone_state[k].state_change_date

\* C27, as stated: the first classified date has a record with that date's
\* classification, and a later classified date has a record exactly when its
\* classification differs from the color of the most recently emitted record.
C27_FirstDateEmitted ==
    (ClassificationCompleted /\ ClassifiedDates # {}) =>
        /\ \E k \in RecordsOn(FirstClassifiedDate) :
              zone_state[k].state_color = Classification(spy_data, FirstClassifiedDate)
        /\ \A d \in ClassifiedDates \ {FirstClassifiedDate} :
              /\ RecordsBefore(d) # {}
              /\ RecordsOn(d) # {} <=>
                    Classification(spy_data, d)
                        # zone_state[LastRecordBefore(d)].state_color

\* The regime in effect before date d: the color of the most recently
\* emitted record, red while none has been emitted.
RegimeBefore(d) ==
    IF RecordsBefore(d) = {} THEN "red"
    ELSE zone_state[LastRecordBefore(d)].state_color

\* C27, amended: the regime is red until a record is emitted; a classified
\* date, the first one included, has a record exactly when its classification
\* differs from the regime before it, and the record carries the
\* classification. A first classified date that is red has no record.
C27_EmittedOnChangeFromRed ==
    ClassificationCompleted =>
        /\ \A d \in ClassifiedDates :
              /\ RecordsOn(d) # {} <=> Classification(spy_data, d) # RegimeBefore(d)
              /\ \A k \in RecordsOn(d) :
                    zone_state[k].state_color = Classification(spy_data, d)
        /\ \A k \in 1..Len(zone_state) :
              zone_state[k].state_change_date \in ClassifiedDates

\* C27 witness: the first classified date is red and has no record, a later
\* date is green and has the first record, and a date after that is red and
\* has the second.
C27_Witness ==
    /\ ClassificationCompleted
    /\ Len(spy_data) > SmaWindow + 1
    /\ Classification(spy_data, FirstClassifiedDate) = "red"
    /\ RecordsOn(FirstClassifiedDate) = {}
    /\ Len(zone_state) >= 2
    /\ zone_state[1].state_color = "green"
    /\ zone_state[2].state_color = "red"

\* The dates on which the classification differs from that of the classified
\* date before.
RegimeFlips ==
    {d \in ClassifiedDates \ {FirstClassifiedDate} :
        Classification(spy_data, d) # Classification(spy_data, d - 1)}

AllGreen ==
    /\ ClassifiedDates # {}
    /\ \A d \in ClassifiedDates : Classification(spy_data, d) = "green"

\* The records are in strictly increasing order of date, none is dated before
\* the first classified date, and consecutive records differ in color.
RecordsWellFormed ==
    /\ \A k \in 1..(Len(zone_state) - 1) :
          /\ zone_state[k].state_change_date < zone_state[k + 1].state_change_date
          /\ zone_state[k].state_color # zone_state[k + 1].state_color
    /\ \A k \in 1..Len(zone_state) :
          /\ zone_state[k].state_change_date >= FirstClassifiedDate
          /\ zone_state[k].state_change_date <= Len(spy_data)

AllGreenOneRecord ==
    AllGreen => zone_state = <<ZoneRecord("green", FirstClassifiedDate)>>

\* C28, as stated: the records are well formed, their number is the number
\* of regime flips of the classified series, and an all-green series gives
\* the single record green at the first classified date.
C28_CountIsFlips ==
    ClassificationCompleted =>
        /\ RecordsWellFormed
        /\ Len(zone_state) = Cardinality(RegimeFlips)
        /\ AllGreenOneRecord

\* C28, amended: the same with the flips counted from the regime red that
\* holds before the first classified date: a series whose first classified
\* date is green has one record more than it has flips.
C28_CountIsFlipsFromRed ==
    ClassificationCompleted =>
        /\ RecordsWellFormed
        /\ Len(zone_state) =
              Cardinality(RegimeFlips)
              + (IF ClassifiedDates # {}
                    /\ Classification(spy_data, FirstClassifiedDate) = "green"
                 THEN 1 ELSE 0)
        /\ AllGreenOneRecord

\* C28 witness: a series classified green, red, green: two flips and three
\* records.
C28_Witness ==
    /\ ClassificationCompleted
    /\ Len(spy_data) >= SmaWindow + 2
    /\ Classification(spy_data, FirstClassifiedDate) = "green"
    /\ Cardinality(RegimeFlips) = 2
    /\ Len(zone_state) = 3

\* C28: a series of more than one classified date, all green, gave one record.
C28_AllGreenWitness ==
    /\ ClassificationCompleted
    /\ AllGreen /\ Len(spy_data) > SmaWindow
    /\ zone_state = <<ZoneRecord("green", FirstClassifiedDate)>>

\* The zone phase of the run found no reference series.
NoReferenceSeries ==
    ReturnedFrom("iterate_spy_zones") /\ ret[1].value = "no data"

\* The dates a lookup of the run can be made for.
LookupDateRange == 0..(SpyLen + 1)

\* C29, as stated: after a run without reference series the table is empty
\* and every lookup of the run gives red, whatever an earlier run left in
\* the table.
C29_NoSeriesNoZones ==
    NoReferenceSeries =>
        /\ zone_state = <<>>
        /\ \A d \in LookupDateRange : find_zone_for_date(zones[1], d) = "red"

\* C29, what the code does: the table is left as the run found it and the
\* lookups of the run work on its records.
C29_NoSeriesKeepsZones ==
    NoReferenceSeries =>
        /\ zone_state = call.zone_state
        /\ zones[1] = load_all_zones(call.zone_state)
        /\ (\A d \in LookupDateRange : find_zone_for_date(zones[1], d) = "red")
              <=> \A k \in 1..Len(call.zone_state) :
                     call.zone_state[k].state_color = "red"

\* C30: after a classification that ran to its end the table holds the
\* records derived from the reference series of this run, in order, and
\* nothing else: none of the records the run found is left unless the
\* series of this run yields it again.
C30_TableReplaced ==
    ClassificationCompleted =>
        /\ spy_data # <<>>
        /\ RecordsWellFormed
        /\ \A d \in 1..Len(spy_data) :
              /\ Cardinality(RecordsOn(d)) <= 1
              /\ RecordsOn(d) # {} <=>
                    (d \in ClassifiedDates
                     /\ Classification(spy_data, d) # RegimeBefore(d))
              /\ \A k \in RecordsOn(d) :
                    zone_state[k].state_color = Classification(spy_data, d)

\* C30 witness: the run found two records in the table and its own series
\* yields one record, dated differently: the table holds that one record.
C30_Witness ==
    /\ ClassificationCompleted
    /\ Len(call.zone_state) = 2
    /\ Len(zone_state) = 1
    /\ \A k \in 1..Len(call.zone_state) : call.zone_state[k] # zone_state[1]

\* The last step took the split branch: the bar of its date carries a split
\* and the window had at least MIN_DATA_POINTS bars.
SplitStep == Stepped /\ SplitDay /\ ProcessedDate >= MIN_DATA_POINTS

\* C34: a step that applies the split override issues the two writes of the
\* override and nothing else (no detector result is written), so it changes
\* at most all_time_high, all_time_high_date and last_trade_signal and
\* leaves trade_signal as it was, on the date flagged today as on any other.
C34_SplitStepFrame ==
    SplitStep =>
        /\ writes = <<update_all_time_high_info(bars[ProcessedDate].close,
                                                ProcessedDate),
                      update_last_trade_signal("BUY")>>
        /\ stocks.trade_signal = before.trade_signal
        /\ SplitResult

\* C34 witness: the split step of a second run for the date flagged today, in
\* AWAITING_SELL with the transient signal of the first run in the row and a
\* two-bar SELL on the last two rows: neither signal was set to SELL.
C34_Witness ==
    /\ SplitStep /\ WasToday /\ run > 1
    /\ before.trade_signal = "BUY" /\ before.last_trade_signal = "BUY"
    /\ HasState(before)
    /\ TwoBarSellAt(AnchorAtStart, ProcessedDate)
    /\ stocks.trade_signal = "BUY" /\ stocks.last_trade_signal = "BUY"

\* C34: a split step on a date before today changed the high and its date.
C34_HistoricalWitness ==
    /\ SplitStep /\ ~WasToday /\ HasState(before)
    /\ before.last_trade_signal = "SELL"
    /\ stocks.all_time_high # before.all_time_high
    /\ stocks.all_time_high_date # before.all_time_high_date
    /\ stocks.last_trade_signal = "BUY"

\* The writes of the last step that set trade_signal.
TransientWrites == {i \in 1..Len(writes) : writes[i].op = "update_trade_signal"}

\* The writes of the last step that set all_time_high and its date.
HighWrites == {i \in 1..Len(writes) : writes[i].op = "update_all_time_high_info"}

\* C35: the step for a date that is not flagged today issues no write of
\* trade_signal and leaves it as it was, so within a replay only the step
\* for the last date can write it.
C35_TransientOnlyToday ==
    (Stepped /\ ~WasToday) =>
        /\ TransientWrites = {}
        /\ stocks.trade_signal = before.trade_signal

\* C35 witness: a step for an earlier date confirmed a three-bar BUY and wrote
\* last_trade_signal without writing trade_signal.
C35_Witness ==
    /\ Stepped /\ ~WasToday /\ ~SplitDay
    /\ before.last_trade_signal # "BUY" /\ stocks.last_trade_signal = "BUY"
    /\ BuyCrossoverAt(AnchorAtStart, ProcessedDate)
    /\ TransientWrites = {} /\ stocks.trade_signal = "NULL"

\* C35: the step for the last date did write trade_signal.
C35_TodayWitness ==
    /\ TodayStep /\ TransientWrites # {} /\ stocks.trade_signal = "BUY"

\* C36: the step for the date flagged today on a bar without a split, begun
\* on a row that holds an all-time high, issues no write of all_time_high and
\* leaves all_time_high and all_time_high_date as they were.
C36_TodayKeepsHigh ==
    (TodayStep /\ HasState(before)) =>
        /\ HighWrites = {}
        /\ stocks.all_time_high = before.all_time_high
        /\ stocks.all_time_high_date = before.all_time_high_date

\* C36 witness: today's step in AWAITING_SELL on a close above all_time_high,
\* which the step of an earlier date would have taken as the new high.
C36_Witness ==
    /\ TodayStep /\ HasState(before)
    /\ before.last_trade_signal = "BUY"
    /\ bars[ProcessedDate].close > before.all_time_high[1]
    /\ stocks.all_time_high = before.all_time_high
    /\ stocks.all_time_high_date = before.all_time_high_date

\* C36: today's step confirmed a two-bar BUY and did not re-anchor.
C36_BuyWitness ==
    /\ TodayStep /\ HasState(before)
    /\ before.last_trade_signal # "BUY" /\ stocks.last_trade_signal = "BUY"
    /\ before.all_time_high_date[1] < ProcessedDate
    /\ stocks.all_time_high_date = before.all_time_high_date

\* The last step was one for a date before today, on a bar without a split
\* and a window of at least MIN_DATA_POINTS bars, begun in AWAITING_BUY on a
\* row that holds an all-time high, and it did not confirm a BUY.
AwaitingBuyStepWithoutBuy ==
    /\ Stepped /\ ~WasToday /\ ~SplitDay /\ ProcessedDate >= MIN_DATA_POINTS
    /\ HasState(before) /\ before.last_trade_signal # "BUY"
    /\ stocks.last_trade_signal # "BUY"

\* C37: such a step writes nothing and leaves every persisted field as it
\* was.
C37_AwaitingBuyNoChange == AwaitingBuyStepWithoutBuy => writes = <<>> /\ stocks = before

\* C37 witness: such a step whose window holds, after the anchor, a close
\* above all_time_high.
C37_Witness ==
    /\ AwaitingBuyStepWithoutBuy
    /\ \E i \in (before.all_time_high_date[1] + 1)..ProcessedDate :
          bars[i].close > before.all_time_high[1]
    /\ writes = <<>> /\ stocks = before

\* C38: in a replay that began on a row without state, after the step for
\* date D the persisted all_time_high_date, when set, is one of the dates of
\* the window of D, none of which is later than D.
C38_HighDateInWindow ==
    (run = 1 /\ stocks.all_time_high_date # None) =>
        /\ Stepped
        /\ stocks.all_time_high_date[1] \in 1..ProcessedDate

\* C38 witness: the step for a date before the last one moved the date of
\* the high to the latest date of its window.
C38_Witness ==
    /\ run = 1 /\ Stepped /\ ~WasToday /\ HasState(before)
    /\ before.all_time_high_date[1] < ProcessedDate
    /\ stocks.all_time_high_date = Some(ProcessedDate)

\* C38: the date of the high stayed at an earlier date of the window.
C38_EarlierDateWitness ==
    /\ run = 1 /\ Stepped /\ ~WasToday /\ ~SplitDay /\ HasState(before)
    /\ HighWrites # {}
    /\ stocks.all_time_high_date[1] < ProcessedDate
    /\ stocks.all_time_high_date[1] > 1

\* C33, as stated: a replay of the same bars that starts from the row the
\* replay before it left ends with the all_time_high, all_time_high_date and
\* last_trade_signal that replay ended with.
C33_SecondReplaySameEnd ==
    (run > 1 /\ RunEnded) =>
        /\ stocks.all_time_high = at_start.all_time_high
        /\ stocks.all_time_high_date = at_start.all_time_high_date
        /\ stocks.last_trade_signal = at_start.last_trade_signal

\* C33, what the code does keep: the high never decreases from one replay of
\* the same bars without splits to the next, and its date stays a date of the
\* history.
C33_SecondReplayHighNotLower ==
    (run > 1 /\ RunEnded /\ NoSplits /\ HasState(at_start)) =>
        /\ HasState(stocks)
        /\ stocks.all_time_high[1] >= at_start.all_time_high[1]
        /\ stocks.all_time_high_date[1] \in 1..Len(bars)

\* The latest classified date of the reference series at or before date d,
\* for d from the first classified date on.
LatestClassifiedDate(d) == IF d > Len(spy_data) THEN Len(spy_data) ELSE d

\* C39: after a classification that ran to its end, find_zone_for_date on the
\* records read back from the table returns, for every date from the first
\* classified date of the series on, the classification of the latest
\* classified date at or before it, and red for every earlier date (and for
\* every date when the series is too short to have a classified date).
C39_LookupIsClassification ==
    ClassificationCompleted =>
        \A d \in LookupDateRange :
            find_zone_for_date(zones[1], d) =
                IF ClassifiedDates # {} /\ d >= FirstClassifiedDate
                THEN Classification(spy_data, LatestClassifiedDate(d))
                ELSE "red"

\* C39 witness: the series turned green and red again, so the table holds
\* two records; lookups before, between and after them give red, green and
\* red, the last one also for a date after the end of the series.
C39_Witness ==
    /\ ClassificationCompleted
    /\ Len(zone_state) = 2
    /\ zone_state[1].state_color = "green" /\ zone_state[2].state_color = "red"
    /\ zone_state[1].state_change_date > FirstClassifiedDate
    /\ find_zone_for_date(zones[1], FirstClassifiedDate) = "red"
    /\ find_zone_for_date(zones[1], zone_state[2].state_change_date - 1) = "green"
    /\ find_zone_for_date(zones[1], Len(spy_data) + 1) = "red"

\* The row one replay of the history leaves when it starts on row and no
\* other run touches the row meanwhile.
RECURSIVE ReplayFrom(_, _)
ReplayFrom(row, day) ==
    IF day > Len(bars) THEN row
    ELSE ReplayFrom(ExecuteAll(row, process_stock_data(row, day,
                                        IsToday(day, Len(bars)),
                                        DailyData(bars, day))),
                    day + 1)

\* The row the two runs leave when one follows the other; both replay the
\* same history, so the two serial orders leave the same row.
SerialResult == ReplayFrom(ReplayFrom(NoRow, 1), 1)

BothReplayed == \A r \in Runs : Replayed(r)

PersistedState(row) ==
    <<row.all_time_high, row.all_time_high_date, row.last_trade_signal>>

\* C32: when the two runs have replayed the instrument and each had it to
\* itself (at most one run in flight at any time), the row is the one the
\* serial order leaves; a row that no serial order leaves is reachable only
\* by runs in flight at once (C32_Witness).
C32_SerialRunsSerialResult ==
    (BothReplayed /\ \A r \in Runs : inflight[r].alone) => stocks = SerialResult

\* C32 witness: two runs in flight at once have both replayed the instrument
\* and the all_time_high, all_time_high_date and last_trade_signal they leave
\* are those of no serial order, nor those one replay alone leaves: a step of
\* one run wrote what it had derived from a row the other run has changed
\* since.
C32_Witness ==
    /\ BothReplayed
    /\ \A r \in Runs : ~inflight[r].alone
    /\ PersistedState(stocks) # PersistedState(SerialResult)
    /\ PersistedState(stocks) # PersistedState(ReplayFrom(NoRow, 1))

\* C32: the two runs went through the same steps side by side and left what
\* one replay leaves, which is not what two replays in a row leave.
C32_LockstepWitness ==
    /\ BothReplayed
    /\ \A r \in Runs : ~inflight[r].alone
    /\ PersistedState(stocks) # PersistedState(SerialResult)
    /\ PersistedState(stocks) = PersistedState(ReplayFrom(NoRow, 1))

\* C32: the two runs did follow one another.
C32_SerialWitness ==
    /\ BothReplayed
    /\ \A r \in Runs : inflight[r].alone
    /\ stocks = SerialResult /\ stocks # ReplayFrom(NoRow, 1)

\* The positions in the log of the run of the calls of process_stock_data,
\* of the writes of the zone classification, and of load_all_zones.
StepEvents == {i \in 1..Len(events) : events[i].op = "step"}
ZoneWriteEvents == {i \in 1..Len(events) : events[i].op \in {"delete", "insert"}}
LoadEvents == {i \in 1..Len(events) : events[i].op = "load_all_zones"}

\* The zone writes of the run all come before its first step.
ClassifiedBeforeSteps == \A i \in ZoneWriteEvents : \A j \in StepEvents : i < j

\* No step of one instrument lies between two steps of another, and the
\* dates of the steps of an instrument ascend.
OneInstrumentAtATime ==
    \A i \in StepEvents : \A j \in StepEvents :
        i < j =>
            /\ events[i].symbol = events[j].symbol =>
                  /\ events[i].date < events[j].date
                  /\ \A k \in StepEvents :
                        (i < k /\ k < j) => events[k].symbol = events[i].symbol
            /\ events[i].symbol # events[j].symbol =>
                  \A k \in StepEvents : k > j => events[k].symbol # events[i].symbol

\* The records the classification of this run derives from the reference
\* series it fetched (none without a series), as load_all_zones returns them.
ClassifiedZones == load_all_zones(ZoneChanges(spy_data, 1, "red"))

\* C31, as stated: within a run the delete and the inserts of the zone
\* classification all come before the first instrument step, every step is
\* given the color that the history produced by the classification of this
\* run has for its date, and no step of one instrument occurs between two
\* steps of another.
C31_ClassifiedThenOneByOne ==
    /\ ClassifiedBeforeSteps
    /\ \A j \in StepEvents :
          events[j].zone = find_zone_for_date(ClassifiedZones, events[j].date)
    /\ OneInstrumentAtATime

\* The classification of the run deleted the table and made all its inserts.
ZonePhaseCompleted ==
    /\ \E i \in 1..Len(events) : events[i].op = "delete"
    /\ \A i \in 1..Len(events) : events[i].op # "zone_error"
    /\ inflight[1].pc \notin {"spy", "delete", "insert"}

\* C31, what the code does: the order is as stated, load_all_zones is called
\* once, after the zone phase and before the first step, and every step is
\* given the color that the table, as the zone phase left it, has for its
\* date; that table holds the records of this run's series when the
\* classification ran to its end.
C31_OrderedOnTableAsLeft ==
    /\ ClassifiedBeforeSteps
    /\ OneInstrumentAtATime
    /\ Cardinality(LoadEvents) <= 1
    /\ \A l \in LoadEvents :
          /\ \A i \in ZoneWriteEvents : i < l
          /\ \A j \in StepEvents : l < j
    /\ StepEvents # {} => LoadEvents # {}
    /\ \A j \in StepEvents :
          events[j].zone = find_zone_for_date(load_all_zones(zone_state), events[j].date)
    /\ ZonePhaseCompleted => zone_state = ZoneChanges(spy_data, 1, "red")

\* C31: a run that classified a series with a green date, on a table an
\* earlier run had filled, and then replayed both instruments is reached;
\* one of its steps was given green.
C31_TwoInstrumentsWitness ==
    /\ inflight[1].pc = "done" /\ ZonePhaseCompleted
    /\ \E i \in 1..Len(events) : events[i].op = "insert"
    /\ \E j \in StepEvents : events[j].zone = "green"
    /\ \A s \in DOMAIN stocks_table :
          /\ \E j \in StepEvents : events[j].symbol = s
          /\ stocks_table[s] # NoRow

\* C31: a run without reference series on a table that holds a green record:
\* a step was given green.
C31_StaleZonesWitness ==
    /\ inflight[1].pc = "done" /\ spy_data = <<>>
    /\ zone_state # <<>>
    /\ \E j \in StepEvents : events[j].zone = "green"
====
